---- MODULE Spec2Model ----
(***************************************************************************)
(* Model of the delivery-preference backend: the order-summary path        *)
(* (backend/internal/handler/summary.go), the order store it reads         *)
(* (backend/internal/handler/orders.go) and the auth middleware in front   *)
(* of both.                                                                *)
(*                                                                         *)
(* A Go string is modelled as a sequence of tokens, each token a TLA+      *)
(* string holding one or more characters; concatenation is \o.  Text that  *)
(* the code inspects character by character (credentials, provider text,   *)
(* addresses) is tokenised one character per token.                        *)
(***************************************************************************)
EXTENDS Integers, Sequences, FiniteSets, TLC

(***************************************************************************)
(* Bounds of the model.                                                    *)
(***************************************************************************)
\* longest credential, in characters
MaxKeyLen == 2
\* largest provider response body handed to an adapter on its own: one unit
\* per candidate/choice, per part and per character
MaxBody == 6
\* largest provider response body seen by a whole summary request
MaxNetBody == 3
\* most orders the store holds
MaxOrders == 1
\* last clock reading
MaxTime == 1

(***************************************************************************)
(* Strings.                                                                *)
(***************************************************************************)
\* unicode.IsSpace restricted to the characters the model uses
IsSpace(c) == c \in {" ", "\t", "\n", "\r"}

RECURSIVE TrimLeft(_)
TrimLeft(s) ==
    IF s = <<>> THEN <<>>
    ELSE IF IsSpace(Head(s)) THEN TrimLeft(Tail(s)) ELSE s

RECURSIVE TrimRight(_)
TrimRight(s) ==
    IF s = <<>> THEN <<>>
    ELSE IF IsSpace(s[Len(s)]) THEN TrimRight(SubSeq(s, 1, Len(s) - 1)) ELSE s

\* strings.TrimSpace
TrimSpace(s) == TrimRight(TrimLeft(s))

\* strings.ReplaceAll(s, old, new) for a one-character old
ReplaceAll(s, old, new) == [i \in 1..Len(s) |-> IF s[i] = old THEN new ELSE s[i]]

RECURSIVE StringsOfLen(_, _)
StringsOfLen(chars, n) ==
    IF n = 0 THEN {<<>>}
    ELSE {Append(s, c) : s \in StringsOfLen(chars, n - 1), c \in chars}

StringsUpTo(chars, n) == UNION {StringsOfLen(chars, k) : k \in 0..n}

\* strconv.Itoa
Itoa(n) == IF n < 0 THEN <<"-", ToString(-n)>> ELSE <<ToString(n)>>

(***************************************************************************)
(* Program constants of summary.go.                                        *)
(***************************************************************************)
aiMaxOutputTokens == 512
fallbackSummaryText == <<"Unable to generate Summary">>
StatusOK == 200

\* http.Response.Status for the status codes the model's providers answer
StatusLine(code) ==
    CASE code = 200 -> "200 OK"
      [] code = 204 -> "204 No Content"
      [] code = 429 -> "429 Too Many Requests"
      [] OTHER -> "500 Internal Server Error"

(***************************************************************************)
(* The error value of Go: nil, or an error with its message.               *)
(***************************************************************************)
NilErr == [nil |-> TRUE, text |-> <<>>]
NewErr(text) == [nil |-> FALSE, text |-> text]

(***************************************************************************)
(* What client.Do gives back: a transport error, or a response with a      *)
(* status code and a body.  A body is either not decodable as JSON or a    *)
(* JSON object with the fields the two adapters read.                      *)
(***************************************************************************)
TextChars == {" ", "a", "b"}
ErrMessages == {"", "quota exceeded"}
ProviderStatusCodes == {200, 204, 429}

RECURSIVE PartListsW(_)
\* the lists of parts of total weight w (one per part, one per character)
PartListsW(w) ==
    IF w = 0 THEN {<<>>}
    ELSE UNION {{<<t>> \o pl : t \in StringsOfLen(TextChars, k - 1),
                               pl \in PartListsW(w - k)} : k \in 1..w}

RECURSIVE CandListsW(_)
\* the lists of candidates of total weight w (one per candidate, plus parts)
CandListsW(w) ==
    IF w = 0 THEN {<<>>}
    ELSE UNION {{<<pl>> \o cl : pl \in PartListsW(k - 1),
                                cl \in CandListsW(w - k)} : k \in 1..w}

\* the lists of choices of total weight w (one per choice, one per character)
ChoiceListsW(w) == PartListsW(w)

TransportError ==
    [neterr |-> TRUE, StatusCode |-> 0, json |-> FALSE, choices |-> <<>>,
     candidates |-> <<>>, errPresent |-> FALSE, errMessage |-> ""]

HTTPResponse(code, json, choices, cands, errPresent, msg) ==
    [neterr |-> FALSE, StatusCode |-> code, json |-> json, choices |-> choices,
     candidates |-> cands, errPresent |-> errPresent, errMessage |-> msg]

Envelopes == {<<FALSE, "">>} \cup {<<TRUE, m>> : m \in ErrMessages}

\* what api.openai.com may answer, bodies up to weight n
OpenAIResponses(n) ==
    {TransportError}
    \cup {HTTPResponse(c, FALSE, <<>>, <<>>, FALSE, "") : c \in ProviderStatusCodes}
    \cup {HTTPResponse(c, TRUE, ch, <<>>, e[1], e[2]) :
            c \in ProviderStatusCodes,
            ch \in UNION {ChoiceListsW(w) : w \in 0..n},
            e \in Envelopes}

\* what generativelanguage.googleapis.com may answer, bodies up to weight n
GeminiResponses(n) ==
    {TransportError}
    \cup {HTTPResponse(c, FALSE, <<>>, <<>>, FALSE, "") : c \in ProviderStatusCodes}
    \cup {HTTPResponse(c, TRUE, <<>>, cl, e[1], e[2]) :
            c \in ProviderStatusCodes,
            cl \in UNION {CandListsW(w) : w \in 0..n},
            e \in Envelopes}

(***************************************************************************)
(* The provider adapters.  Each takes, besides the arguments of the Go     *)
(* function, the answer net that client.Do would give, and returns the Go  *)
(* results (s, err) together with the requests it put on the wire.         *)
(***************************************************************************)
OpenAIRequest(prompt, apiKey) ==
    [provider |-> "openai", bearer |-> apiKey, query |-> <<>>,
     prompt |-> prompt, maxTokens |-> aiMaxOutputTokens]

GeminiRequest(prompt, apiKey) ==
    [provider |-> "gemini", bearer |-> <<>>, query |-> apiKey,
     prompt |-> prompt, maxTokens |-> aiMaxOutputTokens]

AdapterResult(s, err, sent) == [s |-> s, err |-> err, sent |-> sent]

\* callOpenAI sending the request a second time after a transport error
callOpenAI_Retry(prompt, apiKey0, net) ==
    LET apiKey == TrimSpace(apiKey0)
        req == OpenAIRequest(prompt, apiKey)
    IN  IF apiKey = <<>> THEN
            AdapterResult(<<>>, NewErr(<<"openai: empty API key">>), <<>>)
        ELSE IF net.neterr THEN
            AdapterResult(<<>>, NewErr(<<"transport">>), <<req, req>>)
        ELSE IF net.StatusCode # StatusOK THEN
            LET decoded == IF net.json /\ net.errPresent THEN net.errMessage ELSE ""
                msg == IF decoded = "" THEN StatusLine(net.StatusCode) ELSE decoded
            IN  AdapterResult(<<>>,
                    NewErr(<<"openai ", ToString(net.StatusCode), ": ", msg>>),
                    <<req>>)
        ELSE IF ~net.json THEN
            AdapterResult(<<>>, NewErr(<<"decode">>), <<req>>)
        ELSE IF Len(net.choices) = 0 THEN
            AdapterResult(<<>>, NilErr, <<req>>)
        ELSE
            AdapterResult(TrimSpace(net.choices[1]), NilErr, <<req>>)

\* callOpenAI reporting an empty choices list as an error
callOpenAI_NoChoicesIsError(prompt, apiKey0, net) ==
    LET apiKey == TrimSpace(apiKey0)
        req == OpenAIRequest(prompt, apiKey)
    IN  IF apiKey = <<>> THEN
            AdapterResult(<<>>, NewErr(<<"openai: empty API key">>), <<>>)
        ELSE IF net.neterr THEN
            AdapterResult(<<>>, NewErr(<<"transport">>), <<req>>)
        ELSE IF net.StatusCode # StatusOK THEN
            LET decoded == IF net.json /\ net.errPresent THEN net.errMessage ELSE ""
                msg == IF decoded = "" THEN StatusLine(net.StatusCode) ELSE decoded
            IN  AdapterResult(<<>>,
                    NewErr(<<"openai ", ToString(net.StatusCode), ": ", msg>>),
                    <<req>>)
        ELSE IF ~net.json THEN
            AdapterResult(<<>>, NewErr(<<"decode">>), <<req>>)
        ELSE IF Len(net.choices) = 0 THEN
            AdapterResult(<<>>, NewErr(<<"openai: no choices">>), <<req>>)
        ELSE
            AdapterResult(TrimSpace(net.choices[1]), NilErr, <<req>>)

callOpenAI(prompt, apiKey0, net) ==
    LET apiKey == TrimSpace(apiKey0)
        req == OpenAIRequest(prompt, apiKey)
    IN  IF apiKey = <<>> THEN
            AdapterResult(<<>>, NewErr(<<"openai: empty API key">>), <<>>)
        ELSE IF net.neterr THEN
            AdapterResult(<<>>, NewErr(<<"transport">>), <<req>>)
        ELSE IF net.StatusCode # StatusOK THEN
            LET decoded == IF net.json /\ net.errPresent THEN net.errMessage ELSE ""
                msg == IF decoded = "" THEN StatusLine(net.StatusCode) ELSE decoded
            IN  AdapterResult(<<>>,
                    NewErr(<<"openai ", ToString(net.StatusCode), ": ", msg>>),
                    <<req>>)
        ELSE IF ~net.json THEN
            AdapterResult(<<>>, NewErr(<<"decode">>), <<req>>)
        ELSE IF Len(net.choices) = 0 THEN
            AdapterResult(<<>>, NilErr, <<req>>)
        ELSE
            AdapterResult(TrimSpace(net.choices[1]), NilErr, <<req>>)

\* the join taking the first part only
JoinParts_FirstPartOnly(parts) == IF parts = <<>> THEN <<>> ELSE Head(parts)

RECURSIVE JoinParts(_)
\* the strings.Builder loop over the parts of one candidate
JoinParts(parts) ==
    IF parts = <<>> THEN <<>>
    ELSE (IF Head(parts) # <<>> THEN Head(parts) ELSE <<>>) \o JoinParts(Tail(parts))

\* callGemini using the credential as given, without strings.TrimSpace
callGemini_NoTrim(prompt, apiKey0, net) ==
    LET apiKey == apiKey0
        req == GeminiRequest(prompt, apiKey)
    IN  IF apiKey = <<>> THEN
            AdapterResult(<<>>, NewErr(<<"gemini: missing GEMINI_API_KEY">>), <<>>)
        ELSE IF net.neterr THEN
            AdapterResult(<<>>, NewErr(<<"transport">>), <<req>>)
        ELSE IF ~net.json THEN
            AdapterResult(<<>>, NewErr(<<"decode">>), <<req>>)
        ELSE IF net.StatusCode # StatusOK THEN
            LET msg == IF net.errPresent /\ net.errMessage # ""
                       THEN net.errMessage ELSE StatusLine(net.StatusCode)
            IN  AdapterResult(<<>>,
                    NewErr(<<"gemini ", ToString(net.StatusCode), ": ", msg>>),
                    <<req>>)
        ELSE IF Len(net.candidates) = 0 \/ Len(net.candidates[1]) = 0 THEN
            AdapterResult(<<>>, NilErr, <<req>>)
        ELSE
            AdapterResult(TrimSpace(JoinParts(net.candidates[1])), NilErr, <<req>>)

\* callGemini reading the candidates whatever the status code
callGemini_StatusUnchecked(prompt, apiKey0, net) ==
    LET apiKey == TrimSpace(apiKey0)
        req == GeminiRequest(prompt, apiKey)
    IN  IF apiKey = <<>> THEN
            AdapterResult(<<>>, NewErr(<<"gemini: missing GEMINI_API_KEY">>), <<>>)
        ELSE IF net.neterr THEN
            AdapterResult(<<>>, NewErr(<<"transport">>), <<req>>)
        ELSE IF ~net.json THEN
            AdapterResult(<<>>, NewErr(<<"decode">>), <<req>>)
        ELSE IF Len(net.candidates) = 0 \/ Len(net.candidates[1]) = 0 THEN
            AdapterResult(<<>>, NilErr, <<req>>)
        ELSE
            AdapterResult(TrimSpace(JoinParts(net.candidates[1])), NilErr, <<req>>)

callGemini(prompt, apiKey0, net) ==
    LET apiKey == TrimSpace(apiKey0)
        req == GeminiRequest(prompt, apiKey)
    IN  IF apiKey = <<>> THEN
            AdapterResult(<<>>, NewErr(<<"gemini: missing GEMINI_API_KEY">>), <<>>)
        ELSE IF net.neterr THEN
            AdapterResult(<<>>, NewErr(<<"transport">>), <<req>>)
        ELSE IF ~net.json THEN
            AdapterResult(<<>>, NewErr(<<"decode">>), <<req>>)
        ELSE IF net.StatusCode # StatusOK THEN
            LET msg == IF net.errPresent /\ net.errMessage # ""
                       THEN net.errMessage ELSE StatusLine(net.StatusCode)
            IN  AdapterResult(<<>>,
                    NewErr(<<"gemini ", ToString(net.StatusCode), ": ", msg>>),
                    <<req>>)
        ELSE IF Len(net.candidates) = 0 \/ Len(net.candidates[1]) = 0 THEN
            AdapterResult(<<>>, NilErr, <<req>>)
        ELSE
            AdapterResult(TrimSpace(JoinParts(net.candidates[1])), NilErr, <<req>>)

(***************************************************************************)
(* Process configuration: each variable is unset or holds a string.        *)
(***************************************************************************)
KeyChars == {" ", "k"}
KeyStrings == StringsUpTo(KeyChars, MaxKeyLen)
Unset == [set |-> FALSE, val |-> <<>>]
SetTo(s) == [set |-> TRUE, val |-> s]
KeyVals == {Unset} \cup {SetTo(s) : s \in KeyStrings}
Environs == [OPENAI_API_KEY : KeyVals, GEMINI_API_KEY : KeyVals]

\* os.Getenv: the value, or "" when the variable is not present
Getenv(environ, name) == IF environ[name].set THEN environ[name].val ELSE <<>>

(***************************************************************************)
(* generateOrderSummary, with the environment it reads and the answer the  *)
(* network gives to the one request it may send.  Besides the Go results   *)
(* (summary, source) the record traces the adapters invoked, the requests  *)
(* sent, what the invoked adapter returned and the lines logged.           *)
(***************************************************************************)
PromptPrefix ==
    <<"Create the order summary for the customer in one or two complete sentences. Include order number, preference, address, pickup time. Use the following order details: ">>

NoAdapter == [fn |-> "", s |-> <<>>, err |-> NilErr]

SummaryResult(summary, source, invoked, r, fn, log) ==
    [summary |-> summary, source |-> source, invoked |-> invoked,
     sent |-> r.sent, adapter |-> [fn |-> fn, s |-> r.s, err |-> r.err],
     log |-> log]

\* the provider branch without the check for empty content
TryProvider_NoEmptyCheck(name, fn, r, prompt) ==
    LET promptLine == <<"order summary: input prompt: ">> \o prompt
    IN  IF ~r.err.nil THEN
            SummaryResult(fallbackSummaryText, <<"fallback">>, <<fn>>, r, fn,
                <<promptLine,
                  <<"order summary: ", name, " call failed: ">> \o r.err.text>>)
        ELSE
            SummaryResult(r.s, <<"ai">>, <<fn>>, r, fn,
                <<promptLine,
                  <<"order summary: output (", ToString(Len(r.s)), " chars): ">> \o r.s>>)

\* the provider branch labelling the fallback for empty content as "ai"
TryProvider_EmptyLabelledAi(name, fn, r, prompt) ==
    LET promptLine == <<"order summary: input prompt: ">> \o prompt
    IN  IF ~r.err.nil THEN
            SummaryResult(fallbackSummaryText, <<"fallback">>, <<fn>>, r, fn,
                <<promptLine,
                  <<"order summary: ", name, " call failed: ">> \o r.err.text>>)
        ELSE IF r.s = <<>> THEN
            SummaryResult(fallbackSummaryText, <<"ai">>, <<fn>>, r, fn,
                <<promptLine,
                  <<"order summary: ", name, " returned empty content, using fallback">>>>)
        ELSE
            SummaryResult(r.s, <<"ai">>, <<fn>>, r, fn,
                <<promptLine,
                  <<"order summary: output (", ToString(Len(r.s)), " chars): ">> \o r.s>>)

\* the body shared by the two provider branches of generateOrderSummary
TryProvider(name, fn, r, prompt) ==
    LET promptLine == <<"order summary: input prompt: ">> \o prompt
    IN  IF ~r.err.nil THEN
            SummaryResult(fallbackSummaryText, <<"fallback">>, <<fn>>, r, fn,
                <<promptLine,
                  <<"order summary: ", name, " call failed: ">> \o r.err.text>>)
        ELSE IF r.s = <<>> THEN
            SummaryResult(fallbackSummaryText, <<"fallback">>, <<fn>>, r, fn,
                <<promptLine,
                  <<"order summary: ", name, " returned empty content, using fallback">>>>)
        ELSE
            SummaryResult(r.s, <<"ai">>, <<fn>>, r, fn,
                <<promptLine,
                  <<"order summary: output (", ToString(Len(r.s)), " chars): ">> \o r.s>>)

\* generateOrderSummary going on to Gemini when the OpenAI attempt gave nothing
generateOrderSummary_FallThrough(orderDesc, environ, net) ==
    LET prompt == PromptPrefix \o orderDesc
        openaiKey == Getenv(environ, "OPENAI_API_KEY")
        geminiKey == Getenv(environ, "GEMINI_API_KEY")
        first == TryProvider("OpenAI", "callOpenAI", callOpenAI(prompt, openaiKey, net), prompt)
        second == TryProvider("Gemini", "callGemini", callGemini(prompt, geminiKey, net), prompt)
    IN  IF openaiKey # <<>> /\ (first.source = <<"ai">> \/ geminiKey = <<>>) THEN
            first
        ELSE IF openaiKey # <<>> THEN
            [second EXCEPT !.invoked = first.invoked \o second.invoked,
                           !.sent = first.sent \o second.sent,
                           !.log = first.log \o second.log]
        ELSE IF geminiKey # <<>> THEN
            second
        ELSE
            [summary |-> fallbackSummaryText, source |-> <<"fallback">>,
             invoked |-> <<>>, sent |-> <<>>, adapter |-> NoAdapter, log |-> <<>>]

generateOrderSummary(orderDesc, environ, net) ==
    LET prompt == PromptPrefix \o orderDesc
        openaiKey == Getenv(environ, "OPENAI_API_KEY")
        geminiKey == Getenv(environ, "GEMINI_API_KEY")
    IN  IF openaiKey # <<>> THEN
            TryProvider("OpenAI", "callOpenAI", callOpenAI(prompt, openaiKey, net), prompt)
        ELSE IF geminiKey # <<>> THEN
            TryProvider("Gemini", "callGemini", callGemini(prompt, geminiKey, net), prompt)
        ELSE
            [summary |-> fallbackSummaryText, source |-> <<"fallback">>,
             invoked |-> <<>>, sent |-> <<>>, adapter |-> NoAdapter, log |-> <<>>]

(***************************************************************************)
(* Times.  A time is a whole number of seconds plus a flag saying whether  *)
(* it has a non-zero sub-second part.  Go's zero time.Time lies before     *)
(* every clock reading.                                                    *)
(***************************************************************************)
Time(sec, frac) == [sec |-> sec, frac |-> frac]
ZeroTime == Time(-1, FALSE)

\* t.After(u)
After(t, u) == t.sec > u.sec \/ (t.sec = u.sec /\ t.frac /\ ~u.frac)

\* t.Format(time.RFC3339): seconds resolution, the sub-second part is dropped
FormatRFC3339(t) == <<"T", ToString(t.sec), "Z">>

\* database/sql null wrappers
NullString(valid, str) == [Valid |-> valid, String |-> str]
NullTime(valid, t) == [Valid |-> valid, Time |-> t]

(***************************************************************************)
(* orderDescription                                                        *)
(***************************************************************************)
\* orderDescription leaving the pickup segment out when there is no time
orderDescription_PickupOmitted(id, preference, address, pickupTime, createdAt) ==
    <<"Order number: ">> \o Itoa(id)
    \o <<". Preference: ">> \o ReplaceAll(preference, "_", " ")
    \o (IF address.Valid /\ address.String # <<>>
        THEN <<". Address: ">> \o address.String
        ELSE <<". Address: (none)">>)
    \o (IF pickupTime.Valid
        THEN <<". Pickup time: ">> \o FormatRFC3339(pickupTime.Time)
        ELSE <<>>)
    \o <<". Creation date: ">> \o FormatRFC3339(createdAt)

orderDescription(id, preference, address, pickupTime, createdAt) ==
    <<"Order number: ">> \o Itoa(id)
    \o <<". Preference: ">> \o ReplaceAll(preference, "_", " ")
    \o (IF address.Valid /\ address.String # <<>>
        THEN <<". Address: ">> \o address.String
        ELSE <<". Address: (none)">>)
    \o (IF pickupTime.Valid
        THEN <<". Pickup time: ">> \o FormatRFC3339(pickupTime.Time)
        ELSE <<". Pickup time: (none)">>)
    \o <<". Creation date: ">> \o FormatRFC3339(createdAt)

PrefInStore == <<"IN", "_", "STORE">>
PrefDelivery == <<"DELIVERY">>
PrefCurbside == <<"CURBSIDE">>

(***************************************************************************)
(* State.                                                                  *)
(***************************************************************************)
VARIABLES
    env,      \* process environment: OPENAI_API_KEY and GEMINI_API_KEY
    users,    \* ids of the rows of table users
    orders,   \* rows of table orders, in id order
    now,      \* the clock
    last,     \* the last HTTP exchange of the server, with its trace
    apiKey,   \* argument of an adapter called on its own
    netIn,    \* the answer the network holds for a function called on its own
    aout,     \* result of an adapter called on its own
    gout,     \* result of generateOrderSummary called on its own
    body,     \* the request body the last exchange decoded
    dout,     \* result of orderDescription called on its own
    reqs,     \* the requests being served at the same time, one per goroutine
    storage,  \* the browser's localStorage: the items "token" and "orderId"
    authCtx,  \* state of AuthProvider, with the me() requests in flight
    route,    \* the router: the path visited, the location and the element shown
    page      \* state of the Preference page, with its API calls in flight

vars == <<env, users, orders, now, last, apiKey, netIn, aout, gout, body, dout, reqs,
          storage, authCtx, route, page>>

NoExchange ==
    [handler |-> "", auth |-> [present |-> FALSE, scheme |-> "", user_id |-> 0,
                               secret |-> "", expired |-> FALSE],
     idStr |-> <<>>, status |-> 0, error |-> "", json |-> <<>>,
     net |-> [neterr |-> FALSE, StatusCode |-> 0, json |-> FALSE, choices |-> <<>>,
              candidates |-> <<>>, errPresent |-> FALSE, errMessage |-> ""],
     invoked |-> <<>>, sent |-> <<>>, log |-> <<>>]
NoAdapterCall == [fn |-> "", s |-> <<>>, err |-> NilErr, sent |-> <<>>]
NoSummaryCall ==
    [done |-> FALSE, orderDesc |-> <<>>, summary |-> <<>>, source |-> <<>>,
     invoked |-> <<>>, sent |-> <<>>, adapter |-> NoAdapter, log |-> <<>>]

MaxReqs == 2

NoBody ==
    [Preference |-> <<>>, Address |-> [nil |-> TRUE, val |-> <<>>],
     PickupTime |-> [nil |-> TRUE, val |-> <<>>]]
NoDescription == [done |-> FALSE, text |-> <<>>]

\* the browser before the application is mounted
Null == "null"
NoUser == [nil |-> TRUE, id |-> 0, email |-> <<>>]
NoOrder == [nil |-> TRUE, id |-> 0, preference |-> ""]
NoSummary == [nil |-> TRUE, summary |-> "", source |-> ""]
NoCall == [fn |-> "", id |-> 0, preference |-> "", then |-> ""]
NoForm == [preference |-> "", address |-> [nil |-> TRUE, val |-> <<>>],
           pickup_time |-> [nil |-> TRUE, val |-> <<>>]]
NoEvent == [name |-> "", data |-> NoSummary, form |-> NoForm]
NoStorage == [token |-> Null, orderId |-> Null]
NoAuthState == [token |-> Null, user |-> NoUser, loading |-> TRUE, pending |-> <<>>]
NoRoute == [requested |-> "", location |-> "", screen |-> ""]
NoPage ==
    [step |-> 1, submitError |-> "", order |-> NoOrder, orderError |-> "",
     aiSummary |-> NoSummary, summaryLoading |-> FALSE, loading |-> TRUE,
     errors |-> {}, load |-> NoCall, submit |-> NoCall, summary |-> NoCall,
     event |-> NoEvent]
ClientIdle ==
    /\ storage = NoStorage
    /\ authCtx = NoAuthState
    /\ route = NoRoute
    /\ page = NoPage

SamplePrompt == PromptPrefix \o <<"Order number: ", "7">>

\* the order of the specification's scenarios: 7, IN_STORE, no address, no time
SampleDescs ==
    {orderDescription(7, PrefInStore, NullString(FALSE, <<>>),
                      NullTime(FALSE, ZeroTime), Time(0, FALSE)),
     orderDescription(8, PrefDelivery, NullString(TRUE, <<"1 Market St">>),
                      NullTime(TRUE, Time(1, FALSE)), Time(0, FALSE))}

(***************************************************************************)
(* The adapters called on their own: Init draws the credential and the     *)
(* network's answer, the actions apply callOpenAI and callGemini.          *)
(***************************************************************************)
ServerIdle ==
    /\ users = {1}
    /\ orders = <<>>
    /\ now = 0
    /\ last = NoExchange
    /\ body = NoBody
    /\ dout = NoDescription
    /\ reqs = <<>>

InitAdapter ==
    /\ netIn \in OpenAIResponses(MaxBody) \cup GeminiResponses(MaxBody)
    /\ apiKey \in KeyStrings
    /\ aout = NoAdapterCall
    /\ env = [OPENAI_API_KEY |-> Unset, GEMINI_API_KEY |-> Unset]
    /\ gout = NoSummaryCall
    /\ ClientIdle
    /\ ServerIdle

CallOpenAI ==
    /\ aout.fn = ""
    /\ netIn.candidates = <<>>
    /\ aout' = [fn |-> "callOpenAI"] @@ callOpenAI(SamplePrompt, apiKey, netIn)
    /\ UNCHANGED <<env, users, orders, now, last, apiKey, netIn, gout, body, dout, reqs, storage, authCtx, route, page>>

CallGemini ==
    /\ aout.fn = ""
    /\ netIn.choices = <<>>
    /\ aout' = [fn |-> "callGemini"] @@ callGemini(SamplePrompt, apiKey, netIn)
    /\ UNCHANGED <<env, users, orders, now, last, apiKey, netIn, gout, body, dout, reqs, storage, authCtx, route, page>>

NextAdapter == CallOpenAI \/ CallGemini

SpecAdapter == InitAdapter /\ [][NextAdapter]_vars

(***************************************************************************)
(* generateOrderSummary called on its own: Init draws the environment and  *)
(* the network's answer, the action applies the function.                  *)
(***************************************************************************)
InitSummary ==
    /\ netIn \in OpenAIResponses(MaxNetBody) \cup GeminiResponses(MaxNetBody)
    /\ env \in Environs
    /\ gout = NoSummaryCall
    /\ ClientIdle
    /\ apiKey = <<>>
    /\ aout = NoAdapterCall
    /\ ServerIdle

GenerateOrderSummary ==
    /\ ~gout.done
    /\ \E d \in SampleDescs :
         gout' = [done |-> TRUE, orderDesc |-> d] @@ generateOrderSummary(d, env, netIn)
    /\ UNCHANGED <<env, users, orders, now, last, apiKey, netIn, aout, body, dout, reqs, storage, authCtx, route, page>>

NextSummary == GenerateOrderSummary

SpecSummary == InitSummary /\ [][NextSummary]_vars

(***************************************************************************)
(* The HTTP server: requests, the auth middleware, JSON bodies.            *)
(***************************************************************************)
JwtSecret == "server-secret"

\* an Authorization header: absent, or a scheme with a token; a token
\* carries a user_id claim, the secret it was signed with and its expiry
AuthHeader(present, scheme, uid, secret, expired) ==
    [present |-> present, scheme |-> scheme, user_id |-> uid,
     secret |-> secret, expired |-> expired]

NoAuthHeader == AuthHeader(FALSE, "", 0, "", FALSE)

AuthHeaders ==
    {NoAuthHeader}
    \cup {AuthHeader(TRUE, "Basic", u, JwtSecret, FALSE) : u \in users}
    \cup {AuthHeader(TRUE, "Bearer", u, JwtSecret, FALSE) : u \in users}
    \cup {AuthHeader(TRUE, "Bearer", u, JwtSecret, TRUE) : u \in users}
    \cup {AuthHeader(TRUE, "Bearer", u, "other-secret", FALSE) : u \in users}

\* the middleware not looking at the expiry of the token
RequireAuth_ExpiryIgnored(auth) ==
    IF ~auth.present \/ auth.scheme # "Bearer" THEN [ok |-> FALSE, userID |-> 0]
    ELSE IF auth.secret # JwtSecret THEN [ok |-> FALSE, userID |-> 0]
    ELSE [ok |-> TRUE, userID |-> auth.user_id]

\* middleware.RequireAuth followed by middleware.UserIDFrom in the handler
RequireAuth(auth) ==
    IF ~auth.present \/ auth.scheme # "Bearer" THEN [ok |-> FALSE, userID |-> 0]
    ELSE IF auth.secret # JwtSecret \/ auth.expired THEN [ok |-> FALSE, userID |-> 0]
    ELSE [ok |-> TRUE, userID |-> auth.user_id]

\* a JSON object: its members in encoding order
Member(name, value) == [name |-> name, value |-> value]
JSONHas(obj, name) == \E i \in 1..Len(obj) : obj[i].name = name
JSONGet(obj, name) == obj[CHOOSE i \in 1..Len(obj) : obj[i].name = name].value

\* the encoding leaving out source whenever no text was generated
EncodeOrderSummaryResponse_OmitFallback(summary, source) ==
    <<Member("summary", summary)>>
    \o (IF source # <<>> /\ source # <<"fallback">>
        THEN <<Member("source", source)>> ELSE <<>>)

\* json.Encode of OrderSummaryResponse: source carries omitempty
EncodeOrderSummaryResponse(summary, source) ==
    <<Member("summary", summary)>>
    \o (IF source # <<>> THEN <<Member("source", source)>> ELSE <<>>)

\* a *string of the request body
Ptr(isNil, val) == [nil |-> isNil, val |-> val]
NilPtr == Ptr(TRUE, <<>>)

\* t.Format(time.RFC3339Nano), the JSON encoding of a time.Time
FormatRFC3339Nano(t) ==
    IF t.frac THEN <<"T", ToString(t.sec), ".5", "Z">> ELSE <<"T", ToString(t.sec), "Z">>

\* the seconds a timestamp token denotes, or -2 when it is not a number
SecondsOf(tok) ==
    IF \E n \in -1..(MaxTime + 2) : ToString(n) = tok
    THEN CHOOSE n \in -1..(MaxTime + 2) : ToString(n) = tok
    ELSE -2

\* time.Parse(time.RFC3339, s): fractional seconds are accepted
ParseRFC3339(s) ==
    IF /\ Len(s) \in {3, 4}
       /\ s[1] = "T" /\ s[Len(s)] = "Z"
       /\ SecondsOf(s[2]) # -2
       /\ Len(s) = 4 => s[3] = ".5"
    THEN [ok |-> TRUE, t |-> Time(SecondsOf(s[2]), Len(s) = 4)]
    ELSE [ok |-> FALSE, t |-> ZeroTime]

\* strconv.Atoi on a path value
Atoi(s) ==
    IF Len(s) = 1 /\ \E n \in 0..(MaxOrders + 2) : ToString(n) = s[1]
    THEN [ok |-> TRUE, n |-> CHOOSE n \in 0..(MaxOrders + 2) : ToString(n) = s[1]]
    ELSE IF Len(s) = 2 /\ s[1] \in {"-", "+"}
            /\ \E n \in 0..(MaxOrders + 2) : ToString(n) = s[2]
    THEN [ok |-> TRUE,
          n |-> (IF s[1] = "-" THEN -1 ELSE 1)
                 * (CHOOSE n \in 0..(MaxOrders + 2) : ToString(n) = s[2])]
    ELSE [ok |-> FALSE, n |-> 0]

(***************************************************************************)
(* orders.go: validation and CreateOrder.                                  *)
(***************************************************************************)
validPrefs == {PrefInStore, PrefDelivery, PrefCurbside}

OrderRequest(pref, addr, pt) == [Preference |-> pref, Address |-> addr, PickupTime |-> pt]

\* validateOrder: the empty string when the request is valid, else the message
validateOrder(req, clock) ==
    IF req.Preference \notin validPrefs THEN
        "preference must be IN_STORE, DELIVERY, or CURBSIDE"
    ELSE IF /\ req.Preference \in {PrefDelivery, PrefCurbside}
            /\ (req.Address.nil \/ TrimSpace(req.Address.val) = <<>>) THEN
        "address required for DELIVERY and CURBSIDE"
    ELSE IF req.Preference # PrefInStore THEN
        IF req.PickupTime.nil \/ req.PickupTime.val = <<>> THEN
            "pickup_time required when not IN_STORE"
        ELSE IF ~ParseRFC3339(req.PickupTime.val).ok THEN
            "pickup_time must be RFC3339"
        ELSE IF ~After(ParseRFC3339(req.PickupTime.val).t, Time(clock, FALSE)) THEN
            "pickup_time must be in the future"
        ELSE ""
    ELSE ""

\* a row of table orders
Row(id, uid, pref, addr, pt, createdAt) ==
    [id |-> id, user_id |-> uid, preference |-> pref, address |-> addr,
     pickup_time |-> pt, created_at |-> createdAt]

\* orderToResponse followed by json.Encode of OrderResponse
orderToResponse(id, userID, pref, addr, pt, createdAt) ==
    <<Member("id", Itoa(id)), Member("user_id", Itoa(userID)),
      Member("preference", pref)>>
    \o (IF ~addr.nil THEN <<Member("address", addr.val)>> ELSE <<>>)
    \o (IF ~pt.nil THEN <<Member("pickup_time", pt.val)>> ELSE <<>>)
    \o <<Member("created_at", FormatRFC3339Nano(createdAt))>>

NoAnswer == HTTPResponse(0, FALSE, <<>>, <<>>, FALSE, "")

\* an HTTP exchange: the request as far as the handler read it, the
\* response, and the trace of the provider call made on the way
Exchange(handler, auth, idStr, status, error, json, net, trace) ==
    [handler |-> handler, auth |-> auth, idStr |-> idStr, status |-> status,
     error |-> error, json |-> json, net |-> net,
     invoked |-> trace.invoked, sent |-> trace.sent, log |-> trace.log]

NoTrace == [invoked |-> <<>>, sent |-> <<>>, log |-> <<>>]

ErrorReply(handler, auth, idStr, status, error) ==
    Exchange(handler, auth, idStr, status, error, <<>>, NoAnswer, NoTrace)

\* the request bodies a client posts
Preferences == validPrefs \cup {<<"EXPRESS">>}
Addresses == {NilPtr, Ptr(FALSE, <<" ">>), Ptr(FALSE, <<"1 Market St">>)}
PickupTimes ==
    {NilPtr, Ptr(FALSE, <<"tomorrow">>)}
    \cup {Ptr(FALSE, FormatRFC3339Nano(Time(t, FALSE))) : t \in 0..1}
OrderRequests == {OrderRequest(p, a, t) : p \in Preferences, a \in Addresses, t \in PickupTimes}

CreateOrder(auth, decodes, req) ==
    LET who == RequireAuth(auth)
        invalid == validateOrder(req, now)
        address == IF req.Address.nil THEN NullString(FALSE, <<>>)
                   ELSE NullString(TRUE, req.Address.val)
        pickupTime == IF req.PickupTime.nil THEN NullTime(FALSE, ZeroTime)
                      ELSE NullTime(TRUE, ParseRFC3339(req.PickupTime.val).t)
        id == Len(orders) + 1
        createdAt == Time(now, FALSE)
    IN  IF ~who.ok THEN
            /\ last' = ErrorReply("CreateOrder", auth, <<>>, 401, "unauthorized")
            /\ UNCHANGED orders
        ELSE IF ~decodes THEN
            /\ last' = ErrorReply("CreateOrder", auth, <<>>, 400, "invalid json")
            /\ UNCHANGED orders
        ELSE IF invalid # "" THEN
            /\ last' = ErrorReply("CreateOrder", auth, <<>>, 400, invalid)
            /\ UNCHANGED orders
        ELSE
            /\ Len(orders) < MaxOrders
            /\ orders' = Append(orders,
                   Row(id, who.userID, req.Preference, address, pickupTime, createdAt))
            /\ last' = Exchange("CreateOrder", auth, <<>>, 201, "",
                   orderToResponse(id, who.userID, req.Preference, req.Address,
                                   req.PickupTime, createdAt),
                   NoAnswer, NoTrace)

(***************************************************************************)
(* summary.go: the OrderSummary handler.                                   *)
(***************************************************************************)
\* SELECT ... FROM orders WHERE id = $1 AND user_id = $2
FindOrder(db, id, userID) ==
    {i \in 1..Len(db) : db[i].id = id /\ db[i].user_id = userID}

\* the handler answering 502 when the provider call returned an error
OrderSummaryExchange_FailureIs502(auth, idStr, db, environ, net) ==
    LET who == RequireAuth(auth)
        id == Atoi(idStr)
        found == FindOrder(db, id.n, who.userID)
    IN  IF ~who.ok THEN
            ErrorReply("OrderSummary", auth, idStr, 401, "unauthorized")
        ELSE IF ~id.ok \/ id.n < 1 THEN
            ErrorReply("OrderSummary", auth, idStr, 400, "invalid id")
        ELSE IF found = {} THEN
            ErrorReply("OrderSummary", auth, idStr, 404, "not found")
        ELSE
            LET o == db[CHOOSE i \in found : TRUE]
                desc == orderDescription(id.n, o.preference, o.address,
                                         o.pickup_time, o.created_at)
                r == generateOrderSummary(desc, environ, net)
            IN  IF r.sent # <<>> /\ ~r.adapter.err.nil THEN
                    Exchange("OrderSummary", auth, idStr, 502, "bad gateway",
                             <<>>, net, r)
                ELSE
                    Exchange("OrderSummary", auth, idStr, 200, "",
                             EncodeOrderSummaryResponse(r.summary, r.source), net, r)

\* the handler looking the order up by its id alone
OrderSummaryExchange_AnyOwner(auth, idStr, db, environ, net) ==
    LET who == RequireAuth(auth)
        id == Atoi(idStr)
        found == {i \in 1..Len(db) : db[i].id = id.n}
    IN  IF ~who.ok THEN
            ErrorReply("OrderSummary", auth, idStr, 401, "unauthorized")
        ELSE IF ~id.ok \/ id.n < 1 THEN
            ErrorReply("OrderSummary", auth, idStr, 400, "invalid id")
        ELSE IF found = {} THEN
            ErrorReply("OrderSummary", auth, idStr, 404, "not found")
        ELSE
            LET o == db[CHOOSE i \in found : TRUE]
                desc == orderDescription(id.n, o.preference, o.address,
                                         o.pickup_time, o.created_at)
                r == generateOrderSummary(desc, environ, net)
            IN  Exchange("OrderSummary", auth, idStr, 200, "",
                         EncodeOrderSummaryResponse(r.summary, r.source), net, r)

\* the whole handler: the exchange it produces for a request, given the
\* store, the environment and the answer of the network
OrderSummaryExchange(auth, idStr, db, environ, net) ==
    LET who == RequireAuth(auth)
        id == Atoi(idStr)
        found == FindOrder(db, id.n, who.userID)
    IN  IF ~who.ok THEN
            ErrorReply("OrderSummary", auth, idStr, 401, "unauthorized")
        ELSE IF ~id.ok \/ id.n < 1 THEN
            ErrorReply("OrderSummary", auth, idStr, 400, "invalid id")
        ELSE IF found = {} THEN
            ErrorReply("OrderSummary", auth, idStr, 404, "not found")
        ELSE
            LET o == db[CHOOSE i \in found : TRUE]
                desc == orderDescription(id.n, o.preference, o.address,
                                         o.pickup_time, o.created_at)
                r == generateOrderSummary(desc, environ, net)
            IN  Exchange("OrderSummary", auth, idStr, 200, "",
                         EncodeOrderSummaryResponse(r.summary, r.source), net, r)

\* the answers of a provider that keeps to its protocol: text with 200,
\* an error envelope with the other statuses
ProviderAnswers(provider) ==
    {TransportError}
    \cup {HTTPResponse(c, FALSE, <<>>, <<>>, FALSE, "") : c \in ProviderStatusCodes}
    \cup {HTTPResponse(c, TRUE, <<>>, <<>>, e[1], e[2]) :
            c \in ProviderStatusCodes \ {200}, e \in Envelopes}
    \cup (IF provider = "openai"
          THEN {HTTPResponse(200, TRUE, ch, <<>>, FALSE, "") :
                  ch \in UNION {ChoiceListsW(w) : w \in 0..MaxNetBody}}
          ELSE {HTTPResponse(200, TRUE, <<>>, cl, FALSE, "") :
                  cl \in UNION {CandListsW(w) : w \in 0..MaxNetBody}})

\* the network answers only a request that was sent
AnswersFor(x) ==
    IF x.sent = <<>> THEN {NoAnswer} ELSE ProviderAnswers(x.sent[1].provider)

IdStrings == {Itoa(n) : n \in 0..(MaxOrders + 1)} \cup {<<"abc">>, <<"-", "1">>}

OrderSummary(auth, idStr) ==
    /\ \E net \in AnswersFor(OrderSummaryExchange(auth, idStr, orders, env, TransportError)) :
         last' = OrderSummaryExchange(auth, idStr, orders, env, net)
    /\ UNCHANGED orders

(***************************************************************************)
(* The server.  Its environment is fixed when the process starts.          *)
(***************************************************************************)
ServerKeyVals == {Unset, SetTo(<<" ">>), SetTo(<<"k">>)}

Init ==
    /\ env \in [OPENAI_API_KEY : ServerKeyVals, GEMINI_API_KEY : ServerKeyVals]
    /\ ServerIdle
    /\ apiKey = <<>>
    /\ netIn = NoAnswer
    /\ aout = NoAdapterCall
    /\ gout = NoSummaryCall
    /\ ClientIdle

\* a request that the middleware turns away is not read any further
EmptyOrderRequest == OrderRequest(<<>>, NilPtr, NilPtr)

PostOrders ==
    /\ \E auth \in AuthHeaders :
         IF ~RequireAuth(auth).ok
         THEN CreateOrder(auth, FALSE, EmptyOrderRequest)
         ELSE \/ CreateOrder(auth, FALSE, EmptyOrderRequest)
              \/ \E req \in OrderRequests : CreateOrder(auth, TRUE, req)
    /\ UNCHANGED <<env, users, now, apiKey, netIn, aout, gout, body, dout, reqs, storage, authCtx, route, page>>

GetOrderSummary ==
    /\ \E auth \in AuthHeaders :
         \E idStr \in (IF RequireAuth(auth).ok THEN IdStrings ELSE {Itoa(1)}) :
             OrderSummary(auth, idStr)
    /\ UNCHANGED <<env, users, now, apiKey, netIn, aout, gout, body, dout, reqs, storage, authCtx, route, page>>

Next == PostOrders \/ GetOrderSummary

Spec == Init /\ [][Next]_vars

(***************************************************************************)
(* orders.go: GetOrder, ListOrders and UpdateOrder.                        *)
(***************************************************************************)
\* the *string a handler builds from a nullable column
AddrPtr(address) == Ptr(~address.Valid, IF address.Valid THEN address.String ELSE <<>>)
TimePtr(pickupTime) ==
    Ptr(~pickupTime.Valid,
        IF pickupTime.Valid THEN FormatRFC3339(pickupTime.Time) ELSE <<>>)

GetOrderExchange(auth, idStr, db) ==
    LET who == RequireAuth(auth)
        id == Atoi(idStr)
        found == FindOrder(db, id.n, who.userID)
    IN  IF ~who.ok THEN
            ErrorReply("GetOrder", auth, idStr, 401, "unauthorized")
        ELSE IF ~id.ok \/ id.n < 1 THEN
            ErrorReply("GetOrder", auth, idStr, 400, "invalid id")
        ELSE IF found = {} THEN
            ErrorReply("GetOrder", auth, idStr, 404, "not found")
        ELSE
            LET o == db[CHOOSE i \in found : TRUE]
            IN  Exchange("GetOrder", auth, idStr, 200, "",
                         orderToResponse(id.n, who.userID, o.preference,
                                         AddrPtr(o.address), TimePtr(o.pickup_time),
                                         o.created_at),
                         NoAnswer, NoTrace)

GetOrder(auth, idStr) ==
    /\ last' = GetOrderExchange(auth, idStr, orders)
    /\ UNCHANGED <<orders, body>>

\* the orders in which SELECT ... WHERE user_id = $1 ORDER BY created_at DESC
\* may deliver the rows: rows of equal created_at come in any order
RowsOf(db, userID) == {i \in 1..Len(db) : db[i].user_id = userID}

Selections(db, userID) ==
    LET own == RowsOf(db, userID)
        k == Cardinality(own)
    IN  {sel \in [1..k -> 1..Len(db)] :
            /\ {sel[j] : j \in 1..k} = own
            /\ \A j \in 1..k : \A l \in 1..k :
                 j < l => ~After(db[sel[l]].created_at, db[sel[j]].created_at)}

\* the JSON array of the list: each element opens with the member "{"
RECURSIVE EncodeList(_, _, _)
EncodeList(db, userID, sel) ==
    IF sel = <<>> THEN <<>>
    ELSE LET o == db[Head(sel)]
         IN  <<Member("{", <<>>)>>
             \o orderToResponse(o.id, userID, o.preference, AddrPtr(o.address),
                                TimePtr(o.pickup_time), o.created_at)
             \o EncodeList(db, userID, Tail(sel))

ListOrdersExchange(auth, db, sel) ==
    LET who == RequireAuth(auth)
    IN  IF ~who.ok THEN
            ErrorReply("ListOrders", auth, <<>>, 401, "unauthorized")
        ELSE
            Exchange("ListOrders", auth, <<>>, 200, "",
                     EncodeList(db, who.userID, sel), NoAnswer, NoTrace)

ListOrders(auth) ==
    /\ \E sel \in Selections(orders, RequireAuth(auth).userID) :
         last' = ListOrdersExchange(auth, orders, sel)
    /\ UNCHANGED <<orders, body>>

\* UPDATE orders SET ... WHERE id = $4 AND user_id = $5
\* the UPDATE without its WHERE clause
UpdateRows_WholeTable(db, found, pref, address, pickupTime) ==
    [i \in 1..Len(db) |->
        [db[i] EXCEPT !.preference = pref, !.address = address,
                      !.pickup_time = pickupTime]]

UpdateRows(db, found, pref, address, pickupTime) ==
    [i \in 1..Len(db) |->
        IF i \in found
        THEN [db[i] EXCEPT !.preference = pref, !.address = address,
                           !.pickup_time = pickupTime]
        ELSE db[i]]

\* UpdateOrder with WHERE id = $4 only
UpdateOrder_AnyOwner(auth, idStr, decodes, req) ==
    LET who == RequireAuth(auth)
        id == Atoi(idStr)
        invalid == validateOrder(req, now)
        address == IF req.Address.nil THEN NullString(FALSE, <<>>)
                   ELSE NullString(TRUE, req.Address.val)
        pickupTime == IF req.PickupTime.nil THEN NullTime(FALSE, ZeroTime)
                      ELSE NullTime(TRUE, ParseRFC3339(req.PickupTime.val).t)
        found == {i \in 1..Len(orders) : orders[i].id = id.n}
    IN  IF ~who.ok THEN
            /\ last' = ErrorReply("UpdateOrder", auth, idStr, 401, "unauthorized")
            /\ body' = NoBody
            /\ UNCHANGED orders
        ELSE IF ~id.ok \/ id.n < 1 THEN
            /\ last' = ErrorReply("UpdateOrder", auth, idStr, 400, "invalid id")
            /\ body' = NoBody
            /\ UNCHANGED orders
        ELSE IF ~decodes THEN
            /\ last' = ErrorReply("UpdateOrder", auth, idStr, 400, "invalid json")
            /\ body' = NoBody
            /\ UNCHANGED orders
        ELSE IF invalid # "" THEN
            /\ last' = ErrorReply("UpdateOrder", auth, idStr, 400, invalid)
            /\ body' = req
            /\ UNCHANGED orders
        ELSE IF found = {} THEN
            /\ last' = ErrorReply("UpdateOrder", auth, idStr, 404, "not found")
            /\ body' = req
            /\ UNCHANGED orders
        ELSE
            /\ orders' = UpdateRows(orders, found, req.Preference, address, pickupTime)
            /\ body' = req
            /\ last' = Exchange("UpdateOrder", auth, idStr, 200, "",
                   orderToResponse(id.n, who.userID, req.Preference, req.Address,
                                   req.PickupTime,
                                   orders[CHOOSE i \in found : TRUE].created_at),
                   NoAnswer, NoTrace)

UpdateOrder(auth, idStr, decodes, req) ==
    LET who == RequireAuth(auth)
        id == Atoi(idStr)
        invalid == validateOrder(req, now)
        address == IF req.Address.nil THEN NullString(FALSE, <<>>)
                   ELSE NullString(TRUE, req.Address.val)
        pickupTime == IF req.PickupTime.nil THEN NullTime(FALSE, ZeroTime)
                      ELSE NullTime(TRUE, ParseRFC3339(req.PickupTime.val).t)
        found == FindOrder(orders, id.n, who.userID)
    IN  IF ~who.ok THEN
            /\ last' = ErrorReply("UpdateOrder", auth, idStr, 401, "unauthorized")
            /\ body' = NoBody
            /\ UNCHANGED orders
        ELSE IF ~id.ok \/ id.n < 1 THEN
            /\ last' = ErrorReply("UpdateOrder", auth, idStr, 400, "invalid id")
            /\ body' = NoBody
            /\ UNCHANGED orders
        ELSE IF ~decodes THEN
            /\ last' = ErrorReply("UpdateOrder", auth, idStr, 400, "invalid json")
            /\ body' = NoBody
            /\ UNCHANGED orders
        ELSE IF invalid # "" THEN
            /\ last' = ErrorReply("UpdateOrder", auth, idStr, 400, invalid)
            /\ body' = req
            /\ UNCHANGED orders
        ELSE IF found = {} THEN
            /\ last' = ErrorReply("UpdateOrder", auth, idStr, 404, "not found")
            /\ body' = req
            /\ UNCHANGED orders
        ELSE
            /\ orders' = UpdateRows(orders, found, req.Preference, address, pickupTime)
            /\ body' = req
            /\ last' = Exchange("UpdateOrder", auth, idStr, 200, "",
                   orderToResponse(id.n, who.userID, req.Preference, req.Address,
                                   req.PickupTime,
                                   orders[CHOOSE i \in found : TRUE].created_at),
                   NoAnswer, NoTrace)

\* a request to PUT /orders/{id}: the handler reads the path value only
\* behind the middleware and the body only behind a well-formed id
PutOrderOf(ids, requests) ==
    \E auth \in AuthHeaders :
        IF ~RequireAuth(auth).ok
        THEN UpdateOrder(auth, Itoa(1), FALSE, EmptyOrderRequest)
        ELSE \E idStr \in ids :
               IF ~Atoi(idStr).ok \/ Atoi(idStr).n < 1
               THEN UpdateOrder(auth, idStr, FALSE, EmptyOrderRequest)
               ELSE \/ UpdateOrder(auth, idStr, FALSE, EmptyOrderRequest)
                    \/ \E req \in requests : UpdateOrder(auth, idStr, TRUE, req)

\* a request to POST /orders, the decoded body kept
PostOrderOf(requests) ==
    \E auth \in AuthHeaders :
        IF ~RequireAuth(auth).ok
        THEN CreateOrder(auth, FALSE, EmptyOrderRequest) /\ body' = NoBody
        ELSE \/ CreateOrder(auth, FALSE, EmptyOrderRequest) /\ body' = NoBody
             \/ \E req \in requests : CreateOrder(auth, TRUE, req) /\ body' = req

(***************************************************************************)
(* Creating and updating orders: one user posts and puts every body.       *)
(***************************************************************************)
InitOrders ==
    /\ env = [OPENAI_API_KEY |-> Unset, GEMINI_API_KEY |-> Unset]
    /\ users = {1}
    /\ orders = <<>>
    /\ now = 0
    /\ last = NoExchange
    /\ body = NoBody
    /\ apiKey = <<>>
    /\ netIn = NoAnswer
    /\ aout = NoAdapterCall
    /\ gout = NoSummaryCall
    /\ ClientIdle
    /\ dout = NoDescription
    /\ reqs = <<>>

PostOrder ==
    /\ PostOrderOf(OrderRequests)
    /\ UNCHANGED <<env, users, now, apiKey, netIn, aout, gout, dout, reqs, storage, authCtx, route, page>>

PutOrder ==
    /\ PutOrderOf(IdStrings, OrderRequests)
    /\ UNCHANGED <<env, users, now, apiKey, netIn, aout, gout, dout, reqs, storage, authCtx, route, page>>

NextOrders == PostOrder \/ PutOrder

SpecOrders == InitOrders /\ [][NextOrders]_vars

(***************************************************************************)
(* Two users and their orders: the store holds rows that POST /orders      *)
(* wrote for either user, and each user reads, lists, updates and          *)
(* summarises by id.                                                       *)
(***************************************************************************)
ScopeRequests ==
    {OrderRequest(PrefInStore, NilPtr, NilPtr),
     OrderRequest(PrefDelivery, Ptr(FALSE, <<"1 Market St">>),
                  Ptr(FALSE, FormatRFC3339Nano(Time(1, FALSE)))),
     OrderRequest(<<"EXPRESS">>, NilPtr, NilPtr)}

\* the row INSERT INTO orders writes for a valid request of user uid
InsertedRow(id, uid, req, clock) ==
    Row(id, uid, req.Preference,
        IF req.Address.nil THEN NullString(FALSE, <<>>)
        ELSE NullString(TRUE, req.Address.val),
        IF req.PickupTime.nil THEN NullTime(FALSE, ZeroTime)
        ELSE NullTime(TRUE, ParseRFC3339(req.PickupTime.val).t),
        Time(clock, FALSE))

RECURSIVE StoresOfLen(_)
StoresOfLen(n) ==
    IF n = 0 THEN {<<>>}
    ELSE {Append(st, InsertedRow(n, u, req, 0)) :
            st \in StoresOfLen(n - 1), u \in {1, 2},
            req \in {q \in ScopeRequests : validateOrder(q, 0) = ""}}

\* the provider answers with text or not at all
ScopeAnswers(x) ==
    IF x.sent = <<>> THEN {NoAnswer}
    ELSE {TransportError}
         \cup {HTTPResponse(200, TRUE, ch, <<>>, FALSE, "") : ch \in ChoiceListsW(2)}

InitScope ==
    /\ env = [OPENAI_API_KEY |-> SetTo(<<"k">>), GEMINI_API_KEY |-> Unset]
    /\ users = {1, 2}
    /\ orders \in UNION {StoresOfLen(n) : n \in 0..(MaxOrders + 1)}
    /\ now = 0
    /\ last = NoExchange
    /\ body = NoBody
    /\ apiKey = <<>>
    /\ netIn = NoAnswer
    /\ aout = NoAdapterCall
    /\ gout = NoSummaryCall
    /\ ClientIdle
    /\ dout = NoDescription
    /\ reqs = <<>>

GetOrderById ==
    /\ \E auth \in AuthHeaders :
         \E idStr \in (IF RequireAuth(auth).ok THEN IdStrings ELSE {Itoa(1)}) :
             GetOrder(auth, idStr)
    /\ UNCHANGED <<env, users, now, apiKey, netIn, aout, gout, dout, reqs, storage, authCtx, route, page>>

GetOrders ==
    /\ \E auth \in AuthHeaders : ListOrders(auth)
    /\ UNCHANGED <<env, users, now, apiKey, netIn, aout, gout, dout, reqs, storage, authCtx, route, page>>

PutOrderById ==
    /\ PutOrderOf(IdStrings, ScopeRequests)
    /\ UNCHANGED <<env, users, now, apiKey, netIn, aout, gout, dout, reqs, storage, authCtx, route, page>>

GetSummaryById ==
    /\ \E auth \in AuthHeaders :
         \E idStr \in (IF RequireAuth(auth).ok THEN IdStrings ELSE {Itoa(1)}) :
           \E net \in ScopeAnswers(OrderSummaryExchange(auth, idStr, orders, env,
                                                        TransportError)) :
               last' = OrderSummaryExchange(auth, idStr, orders, env, net)
    /\ UNCHANGED <<env, users, orders, now, apiKey, netIn, aout, gout, body, dout, reqs, storage, authCtx, route, page>>

NextScope == GetOrderById \/ GetOrders \/ PutOrderById \/ GetSummaryById

SpecScope == InitScope /\ [][NextScope]_vars

(***************************************************************************)
(* orderDescription called on its own: Init draws the facts of one order   *)
(* as a row of the store, the action applies the function to that row.     *)
(***************************************************************************)
DescAddresses ==
    {NullString(FALSE, <<>>), NullString(TRUE, <<>>), NullString(TRUE, <<" ">>),
     NullString(TRUE, <<" ", " ">>), NullString(TRUE, <<"1 Market St">>),
     NullString(TRUE, <<" ", "a">>)}

DescTimes ==
    {NullTime(FALSE, ZeroTime), NullTime(TRUE, ZeroTime),
     NullTime(TRUE, Time(1, FALSE)), NullTime(TRUE, Time(1, TRUE))}

\* the rows the store can hold: validateOrder let every IN_STORE row in, and
\* a DELIVERY or CURBSIDE row only with an address and a later pickup time
DescRows ==
    {r \in {Row(id, 1, p, a, t, c) :
               id \in {1, 12}, p \in validPrefs, a \in DescAddresses, t \in DescTimes,
               c \in {Time(0, FALSE), Time(0, TRUE)}} :
        \/ r.preference = PrefInStore
        \/ /\ r.address.Valid /\ TrimSpace(r.address.String) # <<>>
           /\ r.pickup_time.Valid /\ After(r.pickup_time.Time, r.created_at)}

InitDescription ==
    /\ orders \in {<<r>> : r \in DescRows}
    /\ dout = NoDescription
    /\ env = [OPENAI_API_KEY |-> Unset, GEMINI_API_KEY |-> Unset]
    /\ users = {1}
    /\ now = 0
    /\ last = NoExchange
    /\ body = NoBody
    /\ apiKey = <<>>
    /\ netIn = NoAnswer
    /\ aout = NoAdapterCall
    /\ gout = NoSummaryCall
    /\ ClientIdle
    /\ reqs = <<>>

OrderDescription ==
    /\ ~dout.done
    /\ dout' = [done |-> TRUE,
                text |-> orderDescription(orders[1].id, orders[1].preference,
                                          orders[1].address, orders[1].pickup_time,
                                          orders[1].created_at)]
    /\ UNCHANGED <<env, users, orders, now, last, apiKey, netIn, aout, gout, body, reqs, storage, authCtx, route, page>>

NextDescription == OrderDescription

SpecDescription == InitDescription /\ [][NextDescription]_vars

(***************************************************************************)
(* Summary requests served at the same time.  net/http runs each request   *)
(* in a goroutine of its own; the handler runs up to the provider call,    *)
(* where the goroutine blocks in client.Do, and goes on when its own       *)
(* response is there.  A slot of reqs is one such goroutine: what it read  *)
(* (its row, the environment), what it put on the wire, what came back and *)
(* the exchange it ended with.                                             *)
(***************************************************************************)
NoEnviron == [OPENAI_API_KEY |-> Unset, GEMINI_API_KEY |-> Unset]

IdleSlot ==
    [pc |-> "idle", auth |-> NoAuthHeader, idStr |-> <<>>, db |-> <<>>,
     environ |-> NoEnviron, wire |-> <<>>, net |-> NoAnswer, x |-> NoExchange]

\* the handler answering from the call of a request already waiting for
\* the same order instead of calling the provider again
BeginSummary_SingleFlight(i, auth, idStr) ==
    LET who == RequireAuth(auth)
        id == Atoi(idStr)
        found == IF who.ok /\ id.ok THEN FindOrder(orders, id.n, who.userID) ELSE {}
        db == IF found = {} THEN <<>> ELSE <<orders[CHOOSE r \in found : TRUE]>>
        x0 == OrderSummaryExchange(auth, idStr, db, env, TransportError)
        shared == \E j \in 1..Len(reqs) :
                     j # i /\ reqs[j].pc = "waiting" /\ reqs[j].idStr = idStr
    IN  /\ reqs[i].pc = "idle"
        /\ reqs' = [reqs EXCEPT ![i] =
              IF x0.sent = <<>>
              THEN [pc |-> "done", auth |-> auth, idStr |-> idStr, db |-> db,
                    environ |-> (IF x0.status = 200 THEN env ELSE NoEnviron),
                    wire |-> <<>>, net |-> NoAnswer,
                    x |-> OrderSummaryExchange(auth, idStr, db, env, NoAnswer)]
              ELSE [pc |-> "waiting", auth |-> auth, idStr |-> idStr, db |-> db,
                    environ |-> env, wire |-> (IF shared THEN <<>> ELSE x0.sent),
                    net |-> NoAnswer, x |-> NoExchange]]

\* the handler keeping the credentials the first served request read
BeginSummary_CachedKeys(i, auth, idStr) ==
    LET who == RequireAuth(auth)
        id == Atoi(idStr)
        found == IF who.ok /\ id.ok THEN FindOrder(orders, id.n, who.userID) ELSE {}
        db == IF found = {} THEN <<>> ELSE <<orders[CHOOSE r \in found : TRUE]>>
        served == {j \in 1..Len(reqs) : reqs[j].pc # "idle"}
        cached == IF served = {} THEN env
                  ELSE reqs[CHOOSE j \in served : TRUE].environ
        x0 == OrderSummaryExchange(auth, idStr, db, cached, TransportError)
    IN  /\ reqs[i].pc = "idle"
        /\ reqs' = [reqs EXCEPT ![i] =
              IF x0.sent = <<>>
              THEN [pc |-> "done", auth |-> auth, idStr |-> idStr, db |-> db,
                    environ |-> (IF x0.status = 200 THEN cached ELSE NoEnviron),
                    wire |-> <<>>, net |-> NoAnswer,
                    x |-> OrderSummaryExchange(auth, idStr, db, cached, NoAnswer)]
              ELSE [pc |-> "waiting", auth |-> auth, idStr |-> idStr, db |-> db,
                    environ |-> cached, wire |-> x0.sent,
                    net |-> NoAnswer, x |-> NoExchange]]

\* OrderSummary from the request to the provider call
BeginSummary(i, auth, idStr) ==
    LET who == RequireAuth(auth)
        id == Atoi(idStr)
        found == IF who.ok /\ id.ok THEN FindOrder(orders, id.n, who.userID) ELSE {}
        db == IF found = {} THEN <<>> ELSE <<orders[CHOOSE r \in found : TRUE]>>
        x0 == OrderSummaryExchange(auth, idStr, db, env, TransportError)
    IN  /\ reqs[i].pc = "idle"
        /\ reqs' = [reqs EXCEPT ![i] =
              IF x0.sent = <<>>
              THEN [pc |-> "done", auth |-> auth, idStr |-> idStr, db |-> db,
                    environ |-> (IF x0.status = 200 THEN env ELSE NoEnviron),
                    wire |-> <<>>, net |-> NoAnswer,
                    x |-> OrderSummaryExchange(auth, idStr, db, env, NoAnswer)]
              ELSE [pc |-> "waiting", auth |-> auth, idStr |-> idStr, db |-> db,
                    environ |-> env, wire |-> x0.sent,
                    net |-> NoAnswer, x |-> NoExchange]]

\* OrderSummary from the provider's response to the reply
CompleteSummary(i, net) ==
    /\ reqs[i].pc = "waiting"
    /\ reqs' = [reqs EXCEPT ![i] =
          [reqs[i] EXCEPT !.pc = "done", !.net = net,
                          !.x = OrderSummaryExchange(reqs[i].auth, reqs[i].idStr,
                                                     reqs[i].db, reqs[i].environ, net)]]

ConcAuths == {NoAuthHeader, AuthHeader(TRUE, "Bearer", 1, JwtSecret, FALSE)}

ConcRequests ==
    {OrderRequest(PrefInStore, NilPtr, NilPtr),
     OrderRequest(PrefInStore, Ptr(FALSE, <<"1 Market St">>), NilPtr)}

ConcAnswers ==
    {TransportError}
    \cup {HTTPResponse(200, TRUE, ch, <<>>, FALSE, "") :
            ch \in ChoiceListsW(0) \cup ChoiceListsW(2)}

InitConc ==
    /\ env = [OPENAI_API_KEY |-> SetTo(<<"k">>), GEMINI_API_KEY |-> Unset]
    /\ users = {1}
    /\ orders = <<InsertedRow(1, 1, OrderRequest(PrefInStore, NilPtr, NilPtr), 0),
                  InsertedRow(2, 1, OrderRequest(PrefInStore, NilPtr, NilPtr), 0)>>
    /\ now = 0
    /\ last = NoExchange
    /\ body = NoBody
    /\ reqs = [i \in 1..MaxReqs |-> IdleSlot]
    /\ apiKey = <<>>
    /\ netIn = NoAnswer
    /\ aout = NoAdapterCall
    /\ gout = NoSummaryCall
    /\ ClientIdle
    /\ dout = NoDescription

SummaryArrives ==
    /\ \E i \in 1..Len(reqs) : \E auth \in ConcAuths :
         \E idStr \in (IF RequireAuth(auth).ok THEN {Itoa(1), Itoa(2), Itoa(3)}
                       ELSE {Itoa(1)}) :
             BeginSummary(i, auth, idStr)
    /\ UNCHANGED <<env, users, orders, now, last, apiKey, netIn, aout, gout, body, dout, storage, authCtx, route, page>>

ProviderResponds ==
    /\ \E i \in 1..Len(reqs) : \E net \in ConcAnswers : CompleteSummary(i, net)
    /\ UNCHANGED <<env, users, orders, now, last, apiKey, netIn, aout, gout, body, dout, storage, authCtx, route, page>>

\* the owner changes order 1 while summaries of it are under way
PutMeanwhile ==
    /\ \E req \in ConcRequests :
         UpdateOrder(AuthHeader(TRUE, "Bearer", 1, JwtSecret, FALSE), Itoa(1), TRUE, req)
    /\ UNCHANGED <<env, users, now, apiKey, netIn, aout, gout, dout, reqs, storage, authCtx, route, page>>

NextConc == SummaryArrives \/ ProviderResponds \/ PutMeanwhile

SpecConc == InitConc /\ [][NextConc]_vars

(***************************************************************************)
(* The credentials change while the server runs: between requests the      *)
(* operator sets, changes or unsets OPENAI_API_KEY and GEMINI_API_KEY.     *)
(***************************************************************************)
ChangingEnvirons ==
    [OPENAI_API_KEY : {Unset, SetTo(<<"k">>), SetTo(<<"k", "k">>)},
     GEMINI_API_KEY : {Unset, SetTo(<<"k">>)}]

\* a provider answers the request it received with text or not at all
AnswersTo(wire) ==
    {TransportError}
    \cup (IF wire[1].provider = "openai"
          THEN {HTTPResponse(200, TRUE, << <<"a">> >>, <<>>, FALSE, "")}
          ELSE {HTTPResponse(200, TRUE, <<>>, << << <<"a">> >> >>, FALSE, "")})

InitEnv ==
    /\ env \in ChangingEnvirons
    /\ users = {1}
    /\ orders = <<InsertedRow(1, 1, OrderRequest(PrefInStore, NilPtr, NilPtr), 0)>>
    /\ now = 0
    /\ last = NoExchange
    /\ body = NoBody
    /\ reqs = [i \in 1..MaxReqs |-> IdleSlot]
    /\ apiKey = <<>>
    /\ netIn = NoAnswer
    /\ aout = NoAdapterCall
    /\ gout = NoSummaryCall
    /\ ClientIdle
    /\ dout = NoDescription

Setenv ==
    /\ \E e \in ChangingEnvirons : e # env /\ env' = e
    /\ UNCHANGED <<users, orders, now, last, apiKey, netIn, aout, gout, body, dout, reqs, storage, authCtx, route, page>>

SummaryRequested ==
    /\ \E i \in 1..Len(reqs) :
         BeginSummary(i, AuthHeader(TRUE, "Bearer", 1, JwtSecret, FALSE), Itoa(1))
    /\ UNCHANGED <<env, users, orders, now, last, apiKey, netIn, aout, gout, body, dout, storage, authCtx, route, page>>

SummaryAnswered ==
    /\ \E i \in 1..Len(reqs) :
         /\ reqs[i].pc = "waiting"
         /\ \E net \in AnswersTo(reqs[i].wire) : CompleteSummary(i, net)
    /\ UNCHANGED <<env, users, orders, now, last, apiKey, netIn, aout, gout, body, dout, storage, authCtx, route, page>>

NextEnv == Setenv \/ SummaryRequested \/ SummaryAnswered

SpecEnv == InitEnv /\ [][NextEnv]_vars

(***************************************************************************)
(* Authentication: table users, Login, Me and the RequireAuth wrapper of   *)
(* the routes.                                                             *)
(***************************************************************************)
\* the rows of table users: the seeded user@weel.com and a second account
UserEmail(u) == IF u = 1 THEN <<"user@weel.com">> ELSE <<"user", ToString(u), "@weel.com">>
UserPassword(u) == IF u = 1 THEN <<"password">> ELSE <<"password", ToString(u)>>

\* bcrypt: the hash of a password, and CompareHashAndPassword
GenerateFromPassword(password) == <<"$2a$10$">> \o password
CompareHashAndPassword(hash, password) == hash = GenerateFromPassword(password)
PasswordHash(u) == GenerateFromPassword(UserPassword(u))

LoginRequest(email, password) == [Email |-> email, Password |-> password]

\* token.SignedString: the claims and the key the token was signed with
SignedString(uid, secret) == <<"jwt", ToString(uid), secret>>

\* the Authorization header a client builds from a token string
BearerOf(tok) ==
    AuthHeader(TRUE, "Bearer",
               CHOOSE u \in 0..9 : ToString(u) = tok[2], tok[3], FALSE)

\* Login telling an unknown email from a wrong password
LoginExchange_RevealsUnknownEmail(decodes, req, table) ==
    LET found == {u \in table : UserEmail(u) = req.Email}
    IN  IF ~decodes THEN
            ErrorReply("Login", NoAuthHeader, <<>>, 400, "invalid json")
        ELSE IF req.Email = <<>> \/ req.Password = <<>> THEN
            ErrorReply("Login", NoAuthHeader, <<>>, 400, "email and password required")
        ELSE IF found = {} THEN
            ErrorReply("Login", NoAuthHeader, <<>>, 404, "unknown email")
        ELSE
            LET id == CHOOSE u \in found : TRUE
            IN  IF ~CompareHashAndPassword(PasswordHash(id), req.Password) THEN
                    ErrorReply("Login", NoAuthHeader, <<>>, 401, "invalid credentials")
                ELSE
                    Exchange("Login", NoAuthHeader, <<>>, 200, "",
                             <<Member("token", SignedString(id, JwtSecret))>>,
                             NoAnswer, NoTrace)

LoginExchange(decodes, req, table) ==
    LET found == {u \in table : UserEmail(u) = req.Email}
    IN  IF ~decodes THEN
            ErrorReply("Login", NoAuthHeader, <<>>, 400, "invalid json")
        ELSE IF req.Email = <<>> \/ req.Password = <<>> THEN
            ErrorReply("Login", NoAuthHeader, <<>>, 400, "email and password required")
        ELSE IF found = {} THEN
            ErrorReply("Login", NoAuthHeader, <<>>, 401, "invalid credentials")
        ELSE
            LET id == CHOOSE u \in found : TRUE
            IN  IF ~CompareHashAndPassword(PasswordHash(id), req.Password) THEN
                    ErrorReply("Login", NoAuthHeader, <<>>, 401, "invalid credentials")
                ELSE
                    Exchange("Login", NoAuthHeader, <<>>, 200, "",
                             <<Member("token", SignedString(id, JwtSecret))>>,
                             NoAnswer, NoTrace)

\* Me behind the middleware
MeExchange(auth, table) ==
    LET who == RequireAuth(auth)
    IN  IF ~who.ok THEN
            ErrorReply("Me", auth, <<>>, 401, "unauthorized")
        ELSE IF who.userID \notin table THEN
            ErrorReply("Me", auth, <<>>, 404, "not found")
        ELSE
            Exchange("Me", auth, <<>>, 200, "",
                     <<Member("id", Itoa(who.userID)),
                       Member("email", UserEmail(who.userID))>>,
                     NoAnswer, NoTrace)

\* the wrapper middleware.RequireAuth(secret)(next): next runs only behind
\* a verified token
Guarded(auth, next) ==
    IF ~RequireAuth(auth).ok
    THEN /\ last' = ErrorReply("RequireAuth", auth, <<>>, 401, "unauthorized")
         /\ body' = NoBody
         /\ UNCHANGED orders
    ELSE next

(***************************************************************************)
(* The routes of main: Login unwrapped, every other route wrapped by       *)
(* RequireAuth.  Two accounts exist; clients send every kind of header.    *)
(***************************************************************************)
LoginEmails == {<<>>, UserEmail(1), UserEmail(2), <<"nobody@weel.com">>}
LoginPasswords == {<<>>, UserPassword(1), UserPassword(2), <<"wrong">>}

InitAuth ==
    /\ env = [OPENAI_API_KEY |-> SetTo(<<"k">>), GEMINI_API_KEY |-> Unset]
    /\ users = {1, 2}
    /\ orders = <<>>
    /\ now = 0
    /\ last = NoExchange
    /\ body = NoBody
    /\ apiKey = <<>>
    /\ netIn = NoAnswer
    /\ aout = NoAdapterCall
    /\ gout = NoSummaryCall
    /\ ClientIdle
    /\ dout = NoDescription
    /\ reqs = <<>>

PostLogin ==
    /\ \/ last' = LoginExchange(FALSE, LoginRequest(<<>>, <<>>), users) /\ body' = NoBody
       \/ \E e \in LoginEmails : \E p \in LoginPasswords :
            /\ last' = LoginExchange(TRUE, LoginRequest(e, p), users)
            /\ body' = LoginRequest(e, p)
    /\ UNCHANGED <<env, users, orders, now, apiKey, netIn, aout, gout, dout, reqs, storage, authCtx, route, page>>

GetMe ==
    /\ \E auth \in AuthHeaders :
         Guarded(auth, /\ last' = MeExchange(auth, users)
                       /\ body' = NoBody
                       /\ UNCHANGED orders)
    /\ UNCHANGED <<env, users, now, apiKey, netIn, aout, gout, dout, reqs, storage, authCtx, route, page>>

GuardedList ==
    /\ \E auth \in AuthHeaders : Guarded(auth, ListOrders(auth))
    /\ UNCHANGED <<env, users, now, apiKey, netIn, aout, gout, dout, reqs, storage, authCtx, route, page>>

GuardedCreate ==
    /\ \E auth \in AuthHeaders :
         Guarded(auth, \E req \in ScopeRequests :
                          CreateOrder(auth, TRUE, req) /\ body' = req)
    /\ UNCHANGED <<env, users, now, apiKey, netIn, aout, gout, dout, reqs, storage, authCtx, route, page>>

GuardedGet ==
    /\ \E auth \in AuthHeaders :
         Guarded(auth, \E idStr \in IdStrings : GetOrder(auth, idStr))
    /\ UNCHANGED <<env, users, now, apiKey, netIn, aout, gout, dout, reqs, storage, authCtx, route, page>>

GuardedUpdate ==
    /\ \E auth \in AuthHeaders :
         Guarded(auth, \E idStr \in IdStrings : \E req \in ScopeRequests :
                          UpdateOrder(auth, idStr, TRUE, req))
    /\ UNCHANGED <<env, users, now, apiKey, netIn, aout, gout, dout, reqs, storage, authCtx, route, page>>

GuardedSummary ==
    /\ \E auth \in AuthHeaders :
         Guarded(auth,
            \E idStr \in IdStrings :
              \E net \in ScopeAnswers(OrderSummaryExchange(auth, idStr, orders, env,
                                                           TransportError)) :
                  /\ last' = OrderSummaryExchange(auth, idStr, orders, env, net)
                  /\ UNCHANGED <<orders, body>>)
    /\ UNCHANGED <<env, users, now, apiKey, netIn, aout, gout, dout, reqs, storage, authCtx, route, page>>

NextAuth ==
    \/ PostLogin \/ GetMe \/ GuardedList \/ GuardedCreate
    \/ GuardedGet \/ GuardedUpdate \/ GuardedSummary

SpecAuth == InitAuth /\ [][NextAuth]_vars

(***************************************************************************)
(* Vocabulary of the properties.                                           *)
(***************************************************************************)
\* s is empty or consists of whitespace only
Blank(s) == \A i \in 1..Len(s) : IsSpace(s[i])

\* k is s with its surrounding whitespace removed
IsTrimOf(k, s) ==
    \E i \in 0..Len(s) : \E j \in i..Len(s) :
        /\ k = SubSeq(s, i + 1, j)
        /\ Blank(SubSeq(s, 1, i))
        /\ Blank(SubSeq(s, j + 1, Len(s)))
        /\ k # <<>> => ~IsSpace(k[1]) /\ ~IsSpace(k[Len(k)])

RECURSIVE ConcatInOrder(_)
\* the texts of a list of parts, one after the other
ConcatInOrder(parts) ==
    IF Len(parts) = 0 THEN <<>>
    ELSE ConcatInOrder(SubSeq(parts, 1, Len(parts) - 1)) \o parts[Len(parts)]

\* the provider call failed: transport error, non-200 status, undecodable body
ProviderFailure(net) == net.neterr \/ net.StatusCode # 200 \/ ~net.json

\* a decodable 200 answer
GoodAnswer(net) == ~net.neterr /\ net.StatusCode = 200 /\ net.json

OpenAIKey == Getenv(env, "OPENAI_API_KEY")
GeminiKey == Getenv(env, "GEMINI_API_KEY")

SentTo(trace, provider) == \E i \in 1..Len(trace.sent) : trace.sent[i].provider = provider

(***************************************************************************)
(* C1: for every combination of the two credentials and every provider     *)
(* outcome, generateOrderSummary returns a non-empty summary and a source  *)
(* that is exactly "ai" or "fallback".                                     *)
(***************************************************************************)
C1_ResultWellFormed ==
    gout.done =>
        /\ gout.summary # <<>>
        /\ gout.source \in {<<"ai">>, <<"fallback">>}

C1_Witness ==
    /\ gout.done
    /\ env.OPENAI_API_KEY = SetTo(<<" ">>)
    /\ env.GEMINI_API_KEY = SetTo(<<"k">>)
    /\ netIn.StatusCode = 200 /\ netIn.json /\ netIn.choices = << <<" ">> >>
    /\ gout.summary = fallbackSummaryText

(***************************************************************************)
(* C2: whenever the attempted provider call fails (transport error,        *)
(* non-200 status, undecodable body) the result is exactly the constant    *)
(* fallback text with source "fallback", and for an authenticated caller   *)
(* whose order exists the OrderSummary handler still answers 200 with it.  *)
(***************************************************************************)
ValidBearer(auth) ==
    auth.present /\ auth.scheme = "Bearer" /\ auth.secret = JwtSecret /\ ~auth.expired

\* the exchange names, by its path, an order of the caller
NamesOwnedOrder(x) ==
    \E i \in 1..Len(orders) :
        x.idStr = Itoa(orders[i].id) /\ orders[i].user_id = x.auth.user_id

SummaryRequestServed ==
    last.handler = "OrderSummary" /\ ValidBearer(last.auth) /\ NamesOwnedOrder(last)

C2_ProviderFailureStill200 ==
    (SummaryRequestServed /\ last.sent # <<>> /\ ProviderFailure(last.net)) =>
        /\ last.status = 200
        /\ last.error = ""
        /\ JSONHas(last.json, "summary") /\ JSONHas(last.json, "source")
        /\ JSONGet(last.json, "summary") = fallbackSummaryText
        /\ JSONGet(last.json, "source") = <<"fallback">>

C2_Witness ==
    /\ SummaryRequestServed
    /\ SentTo(last, "gemini")
    /\ ~last.net.neterr /\ last.net.StatusCode = 429
    /\ last.status = 200
    /\ JSONGet(last.json, "summary") = fallbackSummaryText

(***************************************************************************)
(* C6: with neither credential configured, a summary request for an        *)
(* existing owned order makes zero outbound calls and answers 200 with the *)
(* fixed fallback text and with the source field present in the JSON body  *)
(* and equal to "fallback".                                                *)
(***************************************************************************)
C6_NoCredentialFallback ==
    (SummaryRequestServed /\ Blank(OpenAIKey) /\ Blank(GeminiKey)) =>
        /\ last.sent = <<>>
        /\ last.status = 200
        /\ JSONHas(last.json, "summary")
        /\ JSONGet(last.json, "summary") = fallbackSummaryText
        /\ JSONHas(last.json, "source")
        /\ JSONGet(last.json, "source") = <<"fallback">>

C6_Witness ==
    /\ SummaryRequestServed
    /\ ~env.OPENAI_API_KEY.set /\ ~env.GEMINI_API_KEY.set
    /\ last.sent = <<>> /\ last.invoked = <<>>
    /\ last.status = 200
    /\ JSONHas(last.json, "source")

(***************************************************************************)
(* C3: source is "ai" iff a provider call was attempted and returned       *)
(* non-blank text without error, and then summary is exactly the text the  *)
(* adapter returned; otherwise source is "fallback" and summary is the     *)
(* constant fallback text.                                                 *)
(***************************************************************************)
C3_AiIffProviderText ==
    gout.done =>
        /\ gout.source = <<"ai">> <=>
              (gout.invoked # <<>> /\ gout.adapter.err.nil /\ ~Blank(gout.adapter.s))
        /\ gout.source = <<"ai">> => gout.summary = gout.adapter.s
        /\ gout.source # <<"ai">> =>
              gout.source = <<"fallback">> /\ gout.summary = fallbackSummaryText

C3_Witness ==
    /\ gout.done
    /\ OpenAIKey = <<"k">>
    /\ GoodAnswer(netIn) /\ netIn.choices = << <<"a", "b">> >>
    /\ gout.source = <<"ai">>
    /\ gout.summary = <<"a", "b">>

(***************************************************************************)
(* C4: with both credentials configured a summary request invokes only     *)
(* callOpenAI; callGemini is never invoked, whatever callOpenAI returns.   *)
(***************************************************************************)
C4_OnlyOpenAIWhenBoth ==
    (gout.done /\ OpenAIKey # <<>> /\ GeminiKey # <<>>) =>
        /\ gout.invoked = <<"callOpenAI">>
        /\ ~SentTo(gout, "gemini")

C4_Witness ==
    /\ gout.done
    /\ OpenAIKey = <<"k">> /\ GeminiKey = <<"k">>
    /\ netIn.neterr
    /\ gout.invoked = <<"callOpenAI">>
    /\ gout.source = <<"fallback">>

(***************************************************************************)
(* C5: a summary request makes at most one outbound provider call: no      *)
(* retry, and a failed or empty OpenAI result goes straight to the static  *)
(* fallback without a Gemini call, even with a Gemini credential.          *)
(***************************************************************************)
C5_AtMostOneCall ==
    gout.done =>
        /\ Len(gout.sent) <= 1
        /\ Len(gout.invoked) <= 1
        /\ (SentTo(gout, "openai") /\ (ProviderFailure(netIn) \/ gout.adapter.s = <<>>)) =>
              /\ ~SentTo(gout, "gemini")
              /\ "callGemini" \notin {gout.invoked[i] : i \in 1..Len(gout.invoked)}
              /\ gout.summary = fallbackSummaryText
              /\ gout.source = <<"fallback">>

C5_Witness ==
    /\ gout.done
    /\ OpenAIKey = <<"k">> /\ ~Blank(GeminiKey)
    /\ ~netIn.neterr /\ netIn.StatusCode = 429
    /\ Len(gout.sent) = 1
    /\ gout.source = <<"fallback">>

(***************************************************************************)
(* C7: a credential counts as configured exactly when it is non-blank:     *)
(* OpenAI is attempted iff its credential is non-blank, Gemini iff the     *)
(* OpenAI credential is blank and the Gemini credential is non-blank; so a *)
(* whitespace-only OpenAI credential with a non-blank Gemini credential    *)
(* gives a Gemini attempt.                                                 *)
(***************************************************************************)
C7_SelectionByNonBlank ==
    gout.done =>
        /\ SentTo(gout, "openai") <=> ~Blank(OpenAIKey)
        /\ SentTo(gout, "gemini") <=> (Blank(OpenAIKey) /\ ~Blank(GeminiKey))

(***************************************************************************)
(* C10: a 200 answer without usable text is an empty result and not an     *)
(* error at the adapter ("" with a nil error), and the orchestrator then   *)
(* returns the fallback text with source "fallback", as for a transport    *)
(* error.                                                                  *)
(***************************************************************************)
NoUsableText(fn, net) ==
    IF fn = "callOpenAI"
    THEN net.choices = <<>> \/ Blank(net.choices[1])
    ELSE \/ net.candidates = <<>>
         \/ net.candidates[1] = <<>>
         \/ \A i \in 1..Len(net.candidates[1]) : Blank(net.candidates[1][i])

C10_EmptyIsNotError ==
    (gout.done /\ gout.sent # <<>> /\ GoodAnswer(netIn)
       /\ NoUsableText(gout.adapter.fn, netIn)) =>
        /\ gout.adapter.s = <<>>
        /\ gout.adapter.err.nil
        /\ gout.summary = fallbackSummaryText
        /\ gout.source = <<"fallback">>
        /\ LET t == generateOrderSummary(gout.orderDesc, env, TransportError)
           IN  gout.summary = t.summary /\ gout.source = t.source

C10_Witness ==
    /\ gout.done
    /\ gout.adapter.fn = "callGemini"
    /\ gout.sent # <<>>
    /\ GoodAnswer(netIn)
    /\ netIn.candidates = << << <<" ">> >> >>
    /\ gout.adapter.err.nil
    /\ gout.source = <<"fallback">>

(***************************************************************************)
(* C8: callOpenAI and callGemini, given an empty or whitespace-only        *)
(* credential, return an error without sending any request; given any      *)
(* other credential they use it with surrounding whitespace removed.       *)
(***************************************************************************)
C8_BlankKeyNoRequest ==
    aout.fn # "" =>
        IF Blank(apiKey)
        THEN ~aout.err.nil /\ aout.sent = <<>> /\ aout.s = <<>>
        ELSE /\ Len(aout.sent) = 1
             /\ LET used == IF aout.fn = "callOpenAI"
                             THEN aout.sent[1].bearer ELSE aout.sent[1].query
                IN  used # <<>> /\ IsTrimOf(used, apiKey)

C8_Witness ==
    /\ aout.fn = "callGemini"
    /\ apiKey = <<" ", "k">>
    /\ Len(aout.sent) = 1
    /\ aout.sent[1].query = <<"k">>

(***************************************************************************)
(* C9: for a 200 Gemini answer with at least one candidate, callGemini     *)
(* returns the texts of all parts of the first candidate, concatenated in  *)
(* order and trimmed; parts of later candidates never contribute.          *)
(***************************************************************************)
C9_JoinFirstCandidate ==
    (aout.fn = "callGemini" /\ ~Blank(apiKey) /\ GoodAnswer(netIn)
       /\ Len(netIn.candidates) >= 1) =>
        /\ aout.err.nil
        /\ IsTrimOf(aout.s, ConcatInOrder(netIn.candidates[1]))

C9_Witness ==
    /\ aout.fn = "callGemini"
    /\ GoodAnswer(netIn)
    /\ netIn.candidates = << << <<"a">>, <<"b">> >>, <<>> >>
    /\ aout.s = <<"a", "b">>

(***************************************************************************)
(* C11: for both adapters every provider response whose HTTP status is not *)
(* a success status yields an error and never text, even when the body     *)
(* carries well-formed choices or candidates with non-blank text; such a   *)
(* response never produces a result with source "ai".                      *)
(***************************************************************************)
NonSuccess(net) == ~net.neterr /\ (net.StatusCode < 200 \/ net.StatusCode > 299)

C11_NonSuccessIsError ==
    (gout.done /\ gout.sent # <<>> /\ NonSuccess(netIn)) =>
        /\ ~gout.adapter.err.nil
        /\ gout.adapter.s = <<>>
        /\ gout.source = <<"fallback">>
        /\ gout.summary = fallbackSummaryText

C11_Witness ==
    /\ gout.done
    /\ gout.adapter.fn = "callGemini"
    /\ gout.sent # <<>>
    /\ netIn.StatusCode = 429 /\ netIn.json
    /\ netIn.candidates = << << <<"a">> >> >>
    /\ ~gout.adapter.err.nil
    /\ gout.source = <<"fallback">>

(***************************************************************************)
(* C12: GET /orders/{id}/summary answers 401 without a valid bearer token, *)
(* 400 to an authenticated request whose id is not a positive integer, 404 *)
(* to an authenticated request whose well-formed id names no order or an   *)
(* order of another user; in each of these cases no provider is called and *)
(* no summary is produced.                                                 *)
(***************************************************************************)
PositiveInteger(idStr) == \E n \in 1..(MaxOrders + 2) : idStr = Itoa(n)

NamesOthersOrder(x) ==
    \E i \in 1..Len(orders) :
        x.idStr = Itoa(orders[i].id) /\ orders[i].user_id # x.auth.user_id

C12_SummaryFailureStatuses ==
    last.handler = "OrderSummary" =>
        /\ ~ValidBearer(last.auth) => last.status = 401
        /\ (ValidBearer(last.auth) /\ ~PositiveInteger(last.idStr)) => last.status = 400
        /\ (/\ ValidBearer(last.auth)
            /\ PositiveInteger(last.idStr)
            /\ ~NamesOwnedOrder(last)) => last.status = 404
        /\ last.status \in {400, 401, 404} =>
             /\ last.invoked = <<>>
             /\ last.sent = <<>>
             /\ last.json = <<>>

C12_Witness ==
    /\ last.handler = "OrderSummary"
    /\ ValidBearer(last.auth)
    /\ NamesOthersOrder(last)
    /\ ~Blank(OpenAIKey)
    /\ last.status = 404
    /\ last.sent = <<>>

(***************************************************************************)
(* C13: orderDescription renders the address segment as the literal        *)
(* address only when the address is present and non-blank; an absent,      *)
(* empty or whitespace-only address is rendered as "(none)"; the segment   *)
(* is never left out.                                                      *)
(***************************************************************************)
\* the tokens of text from position i up to the next label
IsLabel(tok) ==
    tok \in {"Order number: ", ". Preference: ", ". Address: ", ". Address: (none)",
             ". Pickup time: ", ". Pickup time: (none)", ". Creation date: "}

ValueAfter(text, i) ==
    LET stop == CHOOSE j \in (i + 1)..(Len(text) + 1) :
                    /\ j = Len(text) + 1 \/ IsLabel(text[j])
                    /\ \A l \in (i + 1)..(j - 1) : ~IsLabel(text[l])
    IN  SubSeq(text, i + 1, stop - 1)

C13_AddressSegment ==
    dout.done =>
        LET a == orders[1].address
        IN  IF a.Valid /\ ~Blank(a.String)
            THEN \E i \in 1..Len(dout.text) :
                    dout.text[i] = ". Address: " /\ ValueAfter(dout.text, i) = a.String
            ELSE \E i \in 1..Len(dout.text) : dout.text[i] = ". Address: (none)"

(***************************************************************************)
(* C14: for every order orderDescription writes exactly five labelled      *)
(* segments in the order order number, preference, address, pickup time,   *)
(* creation date, each after the first introduced by ". "; none is left    *)
(* out or moved; a missing pickup time reads "(none)", a present one reads *)
(* as its timestamp.                                                       *)
(***************************************************************************)
LabelKind(tok) ==
    CASE tok = "Order number: " -> 1
      [] tok = ". Preference: " -> 2
      [] tok \in {". Address: ", ". Address: (none)"} -> 3
      [] tok \in {". Pickup time: ", ". Pickup time: (none)"} -> 4
      [] tok = ". Creation date: " -> 5

LabelsOf(text) ==
    LET labels == SelectSeq(text, IsLabel)
    IN  [i \in 1..Len(labels) |-> LabelKind(labels[i])]

C14_FiveSegmentsInOrder ==
    dout.done =>
        LET o == orders[1]
            text == dout.text
        IN  /\ LabelsOf(text) = <<1, 2, 3, 4, 5>>
            /\ text[1] = "Order number: "
            /\ ValueAfter(text, 1) = Itoa(o.id)
            /\ IF o.pickup_time.Valid
               THEN \E i \in 1..Len(text) :
                       /\ text[i] = ". Pickup time: "
                       /\ ValueAfter(text, i) = FormatRFC3339(o.pickup_time.Time)
               ELSE \E i \in 1..Len(text) : text[i] = ". Pickup time: (none)"
            /\ \E i \in 1..Len(text) :
                   /\ text[i] = ". Creation date: "
                   /\ ValueAfter(text, i) = FormatRFC3339(o.created_at)

C14_Witness ==
    /\ dout.done
    /\ ~orders[1].pickup_time.Valid
    /\ orders[1].address = NullString(TRUE, <<"1 Market St">>)
    /\ \E i \in 1..Len(dout.text) : dout.text[i] = ". Pickup time: (none)"
    /\ \E i \in 1..Len(dout.text) : dout.text[i] = ". Address: "

(***************************************************************************)
(* C16: in every interleaving of summary requests served at the same time, *)
(* for different orders or for the same one, the result of each request is *)
(* determined by the order record it read, the credentials it read and the *)
(* response to its own provider call; with a credential configured each of *)
(* n requests performs a provider call of its own (none is de-duplicated,  *)
(* no response is shared); no request waits for or changes another.        *)
(***************************************************************************)
\* the text the provider returned to this request itself
OwnText(r) ==
    IF GoodAnswer(r.net) /\ Len(r.net.choices) > 0 THEN r.net.choices[1] ELSE <<>>

OwnCallAndResult(r) ==
    /\ r.db # <<>> =>
          Itoa(r.db[1].id) = r.idStr /\ r.db[1].user_id = r.auth.user_id
    /\ (/\ r.pc # "idle" /\ ValidBearer(r.auth) /\ r.db # <<>>
        /\ ~Blank(Getenv(r.environ, "OPENAI_API_KEY"))) =>
          /\ Len(r.wire) = 1
          /\ r.wire[1].provider = "openai"
          /\ IsTrimOf(r.wire[1].bearer, Getenv(r.environ, "OPENAI_API_KEY"))
          /\ r.wire[1].prompt =
                PromptPrefix \o orderDescription(r.db[1].id, r.db[1].preference,
                                                 r.db[1].address, r.db[1].pickup_time,
                                                 r.db[1].created_at)
    /\ (r.pc = "done" /\ r.x.status = 200) =>
          /\ r.x.sent = r.wire
          /\ IF r.wire # <<>> /\ ~Blank(OwnText(r))
             THEN /\ IsTrimOf(JSONGet(r.x.json, "summary"), OwnText(r))
                  /\ JSONGet(r.x.json, "source") = <<"ai">>
             ELSE /\ JSONGet(r.x.json, "summary") = fallbackSummaryText
                  /\ JSONGet(r.x.json, "source") = <<"fallback">>

NeverBlocked(i) ==
    /\ reqs[i].pc = "idle" =>
          ENABLED (\E auth \in ConcAuths : BeginSummary(i, auth, Itoa(1)))
    /\ reqs[i].pc = "waiting" =>
          ENABLED (\E net \in ConcAnswers : CompleteSummary(i, net))

OneSlotPerStep ==
    \A i \in 1..Len(reqs) :
        reqs'[i] # reqs[i] => \A j \in 1..Len(reqs) : j # i => reqs'[j] = reqs[j]

C16_IndependentRequests ==
    /\ [](\A i \in 1..Len(reqs) : OwnCallAndResult(reqs[i]) /\ NeverBlocked(i))
    /\ [][OneSlotPerStep]_vars

C16_Witness ==
    /\ reqs[1].pc = "waiting" /\ reqs[2].pc = "done"
    /\ reqs[1].idStr = Itoa(1) /\ reqs[2].idStr = Itoa(1)
    /\ reqs[1].wire # <<>> /\ reqs[2].wire # <<>>
    /\ reqs[1].db # reqs[2].db
    /\ JSONHas(reqs[2].x.json, "source")
    /\ JSONGet(reqs[2].x.json, "source") = <<"ai">>

(***************************************************************************)
(* C17: the credentials are read from the process environment afresh in    *)
(* every summary request and nothing of an earlier request is kept: after  *)
(* a credential was added, removed or changed, the provider selection and  *)
(* the outcome of the next request follow the environment as it is at that *)
(* request; with both removed the request makes no call and returns the    *)
(* fallback, even when the one before returned source "ai".                *)
(***************************************************************************)
FollowsConfig(r, environ) ==
    LET o == Getenv(environ, "OPENAI_API_KEY")
        g == Getenv(environ, "GEMINI_API_KEY")
    IN  /\ (o = <<>> /\ g = <<>>) =>
              /\ r.pc = "done" /\ r.wire = <<>>
              /\ r.x.status = 200
              /\ JSONGet(r.x.json, "summary") = fallbackSummaryText
              /\ JSONGet(r.x.json, "source") = <<"fallback">>
        /\ ~Blank(o) =>
              /\ r.pc = "waiting" /\ Len(r.wire) = 1
              /\ r.wire[1].provider = "openai"
              /\ IsTrimOf(r.wire[1].bearer, o)
        /\ (o = <<>> /\ ~Blank(g)) =>
              /\ r.pc = "waiting" /\ Len(r.wire) = 1
              /\ r.wire[1].provider = "gemini"
              /\ IsTrimOf(r.wire[1].query, g)

RequestFollowsCurrentEnv ==
    \A i \in 1..Len(reqs) :
        (reqs[i].pc = "idle" /\ reqs'[i].pc # "idle") => FollowsConfig(reqs'[i], env)

C17_CredentialsReadAfresh == [][RequestFollowsCurrentEnv]_vars

C17_Witness ==
    /\ reqs[1].pc = "done" /\ reqs[2].pc = "done"
    /\ reqs[1].wire # <<>>
    /\ JSONHas(reqs[1].x.json, "source")
    /\ JSONGet(reqs[1].x.json, "source") = <<"ai">>
    /\ ~env.OPENAI_API_KEY.set /\ ~env.GEMINI_API_KEY.set
    /\ reqs[2].environ = env
    /\ reqs[2].wire = <<>>
    /\ reqs[2].x.status = 200
    /\ JSONGet(reqs[2].x.json, "source") = <<"fallback">>

(***************************************************************************)
(* C18: CreateOrder and UpdateOrder answer 400 to every request whose      *)
(* preference is not IN_STORE, DELIVERY or CURBSIDE, or whose preference   *)
(* is DELIVERY or CURBSIDE and whose address is missing or blank, or whose *)
(* pickup_time is missing where one is required (DELIVERY, CURBSIDE), or   *)
(* is supplied and is not RFC3339 or not strictly later than the clock; a  *)
(* rejected request leaves the stored orders as they were.                 *)
(***************************************************************************)
NeedsAddressAndTime(req) == req.Preference \in {<<"DELIVERY">>, <<"CURBSIDE">>}

StrictlyFuture(ptr, clock) ==
    /\ ~ptr.nil
    /\ ParseRFC3339(ptr.val).ok
    /\ \/ ParseRFC3339(ptr.val).t.sec > clock
       \/ ParseRFC3339(ptr.val).t.sec = clock /\ ParseRFC3339(ptr.val).t.frac

Rejectable(req, clock) ==
    \/ req.Preference \notin {<<"IN", "_", "STORE">>, <<"DELIVERY">>, <<"CURBSIDE">>}
    \/ NeedsAddressAndTime(req) /\ (req.Address.nil \/ Blank(req.Address.val))
    \/ NeedsAddressAndTime(req) /\ req.PickupTime.nil
    \/ ~req.PickupTime.nil /\ ~StrictlyFuture(req.PickupTime, clock)

WritesOrders(x) == x.handler \in {"CreateOrder", "UpdateOrder"}

RejectedWith400 ==
    (WritesOrders(last) /\ ValidBearer(last.auth) /\ body # NoBody
        /\ Rejectable(body, now)) =>
        last.status = 400 /\ last.json = <<>>

RejectionStoresNothing ==
    (WritesOrders(last') /\ last'.status = 400) => orders' = orders

C18_InvalidOrderRejected == []RejectedWith400 /\ [][RejectionStoresNothing]_vars

\* what validateOrder does ensure: the same with every pickup_time condition
\* limited to DELIVERY and CURBSIDE
RejectableWhenNotInStore(req, clock) ==
    \/ req.Preference \notin {<<"IN", "_", "STORE">>, <<"DELIVERY">>, <<"CURBSIDE">>}
    \/ NeedsAddressAndTime(req) /\ (req.Address.nil \/ Blank(req.Address.val))
    \/ NeedsAddressAndTime(req) /\ ~StrictlyFuture(req.PickupTime, clock)

DeliveryAndCurbsideRejected ==
    [](((WritesOrders(last) /\ ValidBearer(last.auth) /\ body # NoBody
            /\ RejectableWhenNotInStore(body, now)) =>
          last.status = 400 /\ last.json = <<>>))
    /\ [][RejectionStoresNothing]_vars

DeliveryRejected_Witness ==
    /\ last.handler = "UpdateOrder"
    /\ NamesOwnedOrder(last)
    /\ body.Preference = PrefDelivery
    /\ body.Address = Ptr(FALSE, <<"1 Market St">>)
    /\ body.PickupTime = Ptr(FALSE, FormatRFC3339Nano(Time(now, FALSE)))
    /\ last.status = 400
    /\ last.error = "pickup_time must be in the future"

(***************************************************************************)
(* C19: the backend enforces that pickup time is in the future: after any  *)
(* sequence of CreateOrder and UpdateOrder requests every stored order     *)
(* with a pickup_time has one that was supplied as a valid RFC3339         *)
(* timestamp strictly later than the clock of the request that stored it,  *)
(* whatever the preference.                                                *)
(***************************************************************************)
WrittenRows ==
    {i \in 1..Len(orders') : i > Len(orders) \/ orders'[i] # orders[i]}

PickupWrittenIsFuture ==
    \A i \in WrittenRows :
        orders'[i].pickup_time.Valid =>
            /\ StrictlyFuture(body'.PickupTime, now)
            /\ orders'[i].pickup_time.Time = ParseRFC3339(body'.PickupTime.val).t

C19_StoredPickupInFuture == [][PickupWrittenIsFuture]_vars

(***************************************************************************)
(* C20: orders are scoped to the authenticated user: whatever requests     *)
(* several users made before, GetOrder, ListOrders and OrderSummary issued *)
(* by user U return only data of orders U owns, UpdateOrder issued by U    *)
(* modifies only an order U owns, and a request by U naming an order of    *)
(* another user is answered 404 (an UpdateOrder whose body is rejected is  *)
(* answered 400 before the lookup) and leaves that order unchanged.        *)
(***************************************************************************)
OwnedBy(uid) == {i \in 1..Len(orders) : orders[i].user_id = uid}

\* the row of the caller that the exchange names by its path
NamedRows(x) ==
    {i \in OwnedBy(x.auth.user_id) : Itoa(orders[i].id) = x.idStr}

GetReturnsOwn ==
    (last.handler = "GetOrder" /\ last.status = 200) =>
        \E i \in NamedRows(last) :
            /\ JSONGet(last.json, "id") = Itoa(orders[i].id)
            /\ JSONGet(last.json, "user_id") = Itoa(last.auth.user_id)
            /\ JSONGet(last.json, "preference") = orders[i].preference
            /\ JSONHas(last.json, "address") <=> orders[i].address.Valid

ListReturnsOwn ==
    (last.handler = "ListOrders" /\ last.status = 200) =>
        /\ \A k \in 1..Len(last.json) :
             /\ last.json[k].name = "user_id" =>
                   last.json[k].value = Itoa(last.auth.user_id)
             /\ last.json[k].name = "id" =>
                   \E i \in OwnedBy(last.auth.user_id) :
                       last.json[k].value = Itoa(orders[i].id)
        /\ Cardinality({k \in 1..Len(last.json) : last.json[k].name = "{"})
              = Cardinality(OwnedBy(last.auth.user_id))

SummaryOfOwn ==
    (last.handler = "OrderSummary" /\ last.status = 200) =>
        \E i \in NamedRows(last) :
            last.sent # <<>> =>
                last.sent[1].prompt =
                    PromptPrefix \o orderDescription(orders[i].id, orders[i].preference,
                                                     orders[i].address,
                                                     orders[i].pickup_time,
                                                     orders[i].created_at)

OthersOrderNotFound ==
    (/\ last.handler \in {"GetOrder", "OrderSummary", "UpdateOrder"}
     /\ ValidBearer(last.auth)
     /\ NamesOthersOrder(last)) =>
        /\ last.status = 404 \/ (last.handler = "UpdateOrder" /\ last.status = 400)
        /\ last.json = <<>>
        /\ last.sent = <<>>

UpdatesOwnOnly ==
    /\ Len(orders') = Len(orders)
    /\ \A i \in 1..Len(orders) :
          orders'[i] # orders[i] =>
              /\ last'.handler = "UpdateOrder"
              /\ ValidBearer(last'.auth)
              /\ orders[i].user_id = last'.auth.user_id
              /\ Itoa(orders[i].id) = last'.idStr
              /\ orders'[i].user_id = orders[i].user_id
              /\ orders'[i].id = orders[i].id
              /\ orders'[i].created_at = orders[i].created_at

Wrapped(x) == x.handler \notin {"", "Login"}

TurnedAway ==
    (Wrapped(last) /\ ~ValidBearer(last.auth)) =>
        /\ last.handler = "RequireAuth"
        /\ last.status = 401
        /\ last.json = <<>>
        /\ last.invoked = <<>> /\ last.sent = <<>>

HandlerSeesClaim ==
    (Wrapped(last) /\ last.handler # "RequireAuth") =>
        /\ ValidBearer(last.auth)
        /\ (last.status \in {200, 201} /\ last.handler # "ListOrders"
               /\ JSONHas(last.json, "user_id")) =>
              JSONGet(last.json, "user_id") = Itoa(last.auth.user_id)
        /\ (last.handler = "Me" /\ last.status = 200) =>
              JSONGet(last.json, "id") = Itoa(last.auth.user_id)
        /\ last.handler = "ListOrders" =>
              \A k \in 1..Len(last.json) :
                  last.json[k].name = "user_id" =>
                      last.json[k].value = Itoa(last.auth.user_id)

WritesCarryClaim ==
    \A i \in WrittenRows :
        /\ Wrapped(last') /\ ValidBearer(last'.auth)
        /\ orders'[i].user_id = last'.auth.user_id

C21_RequireAuthGuards ==
    /\ [](TurnedAway /\ HandlerSeesClaim)
    /\ [][WritesCarryClaim]_vars

C21_Witness ==
    /\ last.handler = "RequireAuth"
    /\ last.auth.present /\ last.auth.scheme = "Bearer"
    /\ last.auth.secret = JwtSecret /\ last.auth.expired
    /\ last.status = 401
    /\ orders # <<>>

(***************************************************************************)
(* C22: Login answers 200 with a non-empty token carrying the user's id    *)
(* exactly when the email names an existing user and the password matches  *)
(* that user's stored hash; an empty email or password gets 400; an        *)
(* unknown email and a wrong password both get 401 with the same body, so  *)
(* the response does not tell which of the two was wrong.                  *)
(***************************************************************************)
Matching(req) ==
    {u \in users : UserEmail(u) = req.Email /\ UserPassword(u) = req.Password}

C22_LoginOutcome ==
    last.handler = "Login" =>
        IF body = NoBody THEN last.status = 400
        ELSE /\ (body.Email = <<>> \/ body.Password = <<>>) =>
                    last.status = 400 /\ last.json = <<>>
             /\ last.status = 200 <=> Matching(body) # {}
             /\ last.status = 200 =>
                    /\ JSONGet(last.json, "token") # <<>>
                    /\ RequireAuth(BearerOf(JSONGet(last.json, "token"))).ok
                    /\ RequireAuth(BearerOf(JSONGet(last.json, "token"))).userID
                          \in Matching(body)
             /\ (body.Email # <<>> /\ body.Password # <<>> /\ Matching(body) = {}) =>
                    /\ last.status = 401
                    /\ last.error = "invalid credentials"
                    /\ last.json = <<>>

C22_Witness ==
    /\ last.handler = "Login"
    /\ body # NoBody
    /\ body.Email = <<"nobody@weel.com">>
    /\ body.Password = UserPassword(1)
    /\ last.status = 401
    /\ last.error = "invalid credentials"

(***************************************************************************)
(* The client: localStorage, AuthProvider (context/AuthContext.tsx), the   *)
(* routes of App.tsx, Layout's Logout and the Login page.  The API is the  *)
(* network's to answer: a me() request in flight resolves or rejects at    *)
(* any later step, in any order.                                           *)
(***************************************************************************)
MaxPending == 2
MaxRedirects == 3

serverVars == <<env, users, orders, now, last, apiKey, netIn, aout, gout, body, dout, reqs>>

Tokens == {"t1", "t2"}
\* the user GET /me answers for a token
UserOf(tok) ==
    IF tok = "t1" THEN [nil |-> FALSE, id |-> 1, email |-> UserEmail(1)]
    ELSE [nil |-> FALSE, id |-> 2, email |-> UserEmail(2)]

\* getToken() of api/client.ts
getToken(stor) == stor.token

\* setToken: localStorage first, then the state
setToken(t, stor) == [stor EXCEPT !.token = t]

\* the effect of AuthProvider, run when the token state has changed: without
\* a token the user is cleared, with one a me() request leaves, which reads
\* the token from localStorage
TokenEffect(a, stor, changed) ==
    IF ~changed THEN a
    ELSE IF a.token = Null THEN [a EXCEPT !.user = NoUser, !.loading = FALSE]
    ELSE [a EXCEPT !.pending = Append(@, [token |-> getToken(stor)])]

\* what a route element does: it shows something or it navigates
Shows(what) == [to |-> "", show |-> what]
NavigateTo(path) == [to |-> path, show |-> ""]

ProtectedRoute_UserUnchecked(user, loading) ==
    IF loading THEN Shows("loading") ELSE Shows("Preference")
ProtectedRoute(user, loading) ==
    IF loading THEN Shows("loading")
    ELSE IF user.nil THEN NavigateTo("/login")
    ELSE Shows("Preference")

\* the Login page sends a signed-in user to "/"
LoginElement(user) == IF ~user.nil THEN NavigateTo("/") ELSE Shows("Login")

Paths == {"/", "/summary", "/login", "/nowhere"}
RouteElement(path, user, loading) ==
    CASE path = "/" -> ProtectedRoute(user, loading)
      [] path = "/summary" -> NavigateTo("/")
      [] path = "/login" -> LoginElement(user)
      [] OTHER -> NavigateTo("/")

\* the router follows the navigations until an element shows something
RECURSIVE Settle(_, _, _, _)
Settle(path, user, loading, fuel) ==
    LET e == RouteElement(path, user, loading)
    IN  IF e.to = "" \/ fuel = 0
        THEN [location |-> path, screen |-> e.show]
        ELSE Settle(e.to, user, loading, fuel - 1)

\* the routes rendered again at a location, under the auth state a
Rendered(requested, location, a) ==
    [requested |-> requested] @@ Settle(location, a.user, a.loading, MaxRedirects)

\* AuthProvider after its first render and effect
Mounted(stor) ==
    TokenEffect([token |-> stor.token, user |-> NoUser, loading |-> TRUE, pending |-> <<>>],
                stor, TRUE)

\* the state AuthProvider and the router are left in by a handler that ends
\* with the token t in storage and state, the user u, and a navigation to
\* path (the location is kept when path is "")
AfterAuthStep(stor, a, changed, path) ==
    LET a2 == TokenEffect(a, stor, changed)
    IN  /\ storage' = stor
        /\ authCtx' = a2
        /\ route' = Rendered(IF path = "" THEN route.requested ELSE path,
                             IF path = "" THEN route.location ELSE path, a2)

InitClient ==
    /\ env = [OPENAI_API_KEY |-> Unset, GEMINI_API_KEY |-> Unset]
    /\ ServerIdle
    /\ apiKey = <<>>
    /\ netIn = NoAnswer
    /\ aout = NoAdapterCall
    /\ gout = NoSummaryCall
    /\ storage \in [token : Tokens \cup {Null}, orderId : {Null, "1"}]
    /\ authCtx = Mounted(storage)
    /\ \E p \in Paths : route = Rendered(p, p, authCtx)
    /\ page = NoPage

\* setToken(t) called by a consumer of the context
SetToken ==
    /\ \E t \in Tokens \cup {Null} :
         /\ (t # Null /\ t # authCtx.token) => Len(authCtx.pending) < MaxPending
         /\ AfterAuthStep(setToken(t, storage), [authCtx EXCEPT !.token = t],
                          t # authCtx.token, "")
    /\ UNCHANGED <<serverVars, page>>

\* signOut: the token and the stored order id are removed, the user cleared
signOut(stor) == [setToken(Null, stor) EXCEPT !.orderId = Null]
SignOut ==
    /\ AfterAuthStep(signOut(storage), [authCtx EXCEPT !.token = Null, !.user = NoUser],
                     authCtx.token # Null, "")
    /\ UNCHANGED <<serverVars, page>>

Without(seq, i) == SubSeq(seq, 1, i - 1) \o SubSeq(seq, i + 1, Len(seq))

\* a me() request in flight is answered 200: .then(setUser), .finally
MeResolves ==
    /\ \E i \in 1..Len(authCtx.pending) :
         /\ authCtx.pending[i].token # Null
         /\ AfterAuthStep(storage,
                          [authCtx EXCEPT !.user = UserOf(authCtx.pending[i].token),
                                          !.loading = FALSE,
                                          !.pending = Without(@, i)],
                          FALSE, "")
    /\ UNCHANGED <<serverVars, page>>

\* a me() request in flight fails: .catch clears token and user, .finally
MeRejects ==
    /\ \E i \in 1..Len(authCtx.pending) :
         AfterAuthStep(setToken(Null, storage),
                       [authCtx EXCEPT !.token = Null, !.user = NoUser,
                                       !.loading = FALSE,
                                       !.pending = Without(@, i)],
                       authCtx.token # Null, "")
    /\ UNCHANGED <<serverVars, page>>

\* the address bar
Visit ==
    /\ \E p \in Paths : AfterAuthStep(storage, authCtx, FALSE, p)
    /\ UNCHANGED <<serverVars, page>>

\* Login.onSubmit after login() resolved with a token
LoginSucceeds ==
    /\ route.screen = "Login"
    /\ \E t \in Tokens :
         /\ t # authCtx.token => Len(authCtx.pending) < MaxPending
         /\ AfterAuthStep(setToken(t, storage), [authCtx EXCEPT !.token = t],
                          t # authCtx.token, "/")
    /\ UNCHANGED <<serverVars, page>>

\* Layout.handleLogout: the button is shown to a user outside the login page
HandleLogout ==
    /\ route.location # "/login"
    /\ ~authCtx.user.nil
    /\ AfterAuthStep(signOut(storage), [authCtx EXCEPT !.token = Null, !.user = NoUser],
                     authCtx.token # Null, "/login")
    /\ UNCHANGED <<serverVars, page>>

NextClient ==
    \/ SetToken
    \/ SignOut
    \/ MeResolves
    \/ MeRejects
    \/ Visit
    \/ LoginSucceeds
    \/ HandleLogout

SpecClient == InitClient /\ [][NextClient]_vars

\* C23: the Preference page is on screen only with loading = false and a
\* user; with loading = false and no user, a visit to "/" or to a path no
\* route names ends on the login page.
C23_GuardedPreference ==
    /\ route.screen = "Preference" => (~authCtx.loading /\ ~authCtx.user.nil)
    /\ (~authCtx.loading /\ authCtx.user.nil /\ route.requested \in {"/", "/nowhere"})
         => (route.screen = "Login" /\ route.location = "/login")

C23_Witness ==
    /\ ~authCtx.loading /\ authCtx.user.nil
    /\ route.requested = "/nowhere"
    /\ route.screen = "Login"
    /\ authCtx.token # Null
    /\ authCtx.pending # <<>>

\* C29: once no me() request is in flight, a user is held only with a token.
C29_UserOnlyWithToken ==
    authCtx.pending = <<>> => (~authCtx.user.nil => authCtx.token # Null)

(***************************************************************************)
(* The Preference page (pages/Preference.tsx).  Each API call the page     *)
(* makes is a request in flight, held in the slot of the chain that made   *)
(* it (the mount effect, onSubmit, onGenerateSummary), and is answered at  *)
(* a later step.  A handler runs from one await to the next in one step.   *)
(***************************************************************************)
MaxOrderId == 2

STEP_PREFERENCE == 1
STEP_DETAILS == 2

\* new Date(s).getTime(): the milliseconds of a datetime-local value, NaN
\* (valid = FALSE) for anything else
DateOf(s) ==
    CASE s = <<"2020-01-01T12:00">> -> [valid |-> TRUE, ms |-> 0]
      [] s = <<"2026-01-01T12:00">> -> [valid |-> TRUE, ms |-> 1]
      [] s = <<"2030-01-01T12:00">> -> [valid |-> TRUE, ms |-> 2]
      [] OTHER -> [valid |-> FALSE, ms |-> 0]

\* futureDatetime: a comparison with NaN is false
futureDatetime(s, clock) == DateOf(s).valid /\ DateOf(s).ms > clock

\* the truth value of data.x?.trim(), for a field that may be undefined
TrimmedTruthy(field) == ~field.nil /\ TrimSpace(field.val) # <<>>

FormData(preference, address, pickup_time) ==
    [preference |-> preference, address |-> address, pickup_time |-> pickup_time]

\* schema: the issues superRefine adds, as (path, message) pairs
schema_AddressOptional(data, clock) ==
    IF data.preference = "IN_STORE" THEN {}
    ELSE (IF ~TrimmedTruthy(data.pickup_time)
          THEN {<<"pickup_time", "Pickup time required">>}
          ELSE IF ~futureDatetime(data.pickup_time.val, clock)
          THEN {<<"pickup_time", "Pickup time must be in the future">>}
          ELSE {})
schema(data, clock) ==
    IF data.preference = "IN_STORE" THEN {}
    ELSE (IF ~TrimmedTruthy(data.address)
          THEN {<<"address", "Address required">>} ELSE {})
         \cup
         (IF ~TrimmedTruthy(data.pickup_time)
          THEN {<<"pickup_time", "Pickup time required">>}
          ELSE IF ~futureDatetime(data.pickup_time.val, clock)
          THEN {<<"pickup_time", "Pickup time must be in the future">>}
          ELSE {})

prefs == {"IN_STORE", "DELIVERY", "CURBSIDE"}
FormAddresses == {NilPtr, Ptr(FALSE, <<" ">>), Ptr(FALSE, <<"1 Market St">>)}
FormPickupTimes ==
    {Ptr(FALSE, <<>>), Ptr(FALSE, <<"soon">>)}
    \cup {Ptr(FALSE, <<t>>) : t \in {"2020-01-01T12:00", "2026-01-01T12:00", "2030-01-01T12:00"}}
FormInputs ==
    {FormData(p, a, t) : p \in prefs, a \in FormAddresses, t \in FormPickupTimes}

\* what the API answers
Order(id, preference) == [nil |-> FALSE, id |-> id, preference |-> preference]
OrderIds == 1..MaxOrderId
OrderLists == {<<>>} \cup {<<Order(id, p)>> : id \in OrderIds, p \in {"IN_STORE", "DELIVERY"}}
SummaryData(summary, source) == [nil |-> FALSE, summary |-> summary, source |-> source]
SummaryAnswers ==
    {SummaryData("Your order is ready.", src) : src \in {"ai", "fallback", Null}}

Call(fn, id, preference, then) ==
    [fn |-> fn, id |-> id, preference |-> preference, then |-> then]
Event(name) == [name |-> name, data |-> NoSummary, form |-> NoForm]

\* String(id) and Number(storedOrderId)
String(n) == ToString(n)
Number(str) == CHOOSE n \in OrderIds : ToString(n) = str

isSubmitting(p) == p.submit # NoCall

\* the summary card of step 2, lines 382-396
SummaryCard(p) ==
    IF p.order.nil THEN [shows |-> "placeholder", text |-> "", badge |-> FALSE]
    ELSE IF p.aiSummary.nil THEN [shows |-> "hint", text |-> "", badge |-> FALSE]
    ELSE [shows |-> "summary", text |-> p.aiSummary.summary,
          badge |-> p.aiSummary.source = "ai"]

\* the page after its first render and the mount effect
PageMounted(stor) ==
    [NoPage EXCEPT !.load = IF stor.orderId # Null
                            THEN Call("getOrder", Number(stor.orderId), "", "mount")
                            ELSE Call("getOrders", 0, "", "mount")]

InitPage ==
    /\ env = [OPENAI_API_KEY |-> Unset, GEMINI_API_KEY |-> Unset]
    /\ users = {1}
    /\ orders = <<>>
    /\ now = 1
    /\ last = NoExchange
    /\ body = NoBody
    /\ dout = NoDescription
    /\ reqs = <<>>
    /\ apiKey = <<>>
    /\ netIn = NoAnswer
    /\ aout = NoAdapterCall
    /\ gout = NoSummaryCall
    /\ storage \in [token : {"t1"}, orderId : {Null} \cup {String(n) : n \in OrderIds}]
    /\ authCtx = [token |-> "t1", user |-> UserOf("t1"), loading |-> FALSE, pending |-> <<>>]
    /\ route = Rendered("/", "/", authCtx)
    /\ page = PageMounted(storage)

\* the order a list answer puts on the page: orders[0], stored, or none
TakeLatest(p, list) ==
    IF Len(list) > 0 THEN [p EXCEPT !.order = list[1]] ELSE [p EXCEPT !.order = NoOrder]
StoreLatest(stor, list) ==
    IF Len(list) > 0 THEN [stor EXCEPT !.orderId = String(list[1].id)] ELSE stor

\* mount effect, l.86-94 and l.120: getOrder(storedOrderId) resolves
MountGetOrderResolves ==
    /\ page.load.fn = "getOrder"
    /\ \E pr \in {"IN_STORE", "DELIVERY"} :
         page' = [page EXCEPT !.order = Order(page.load.id, pr), !.loading = FALSE,
                              !.load = NoCall, !.event = Event("getOrder resolved")]
    /\ UNCHANGED <<serverVars, storage, authCtx, route>>

\* l.95-120: getOrder rejects; the handler starts getOrders() and returns,
\* so .finally runs while that request is in flight
MountGetOrderRejects ==
    /\ page.load.fn = "getOrder"
    /\ storage' = [storage EXCEPT !.orderId = Null]
    /\ page' = [page EXCEPT !.orderError = "", !.loading = FALSE,
                            !.load = Call("getOrders", 0, "", "fallback"),
                            !.event = Event("getOrder rejected")]
    /\ UNCHANGED <<serverVars, authCtx, route>>

\* l.99-114 and l.125-140: getOrders resolves
GetOrdersResolves ==
    /\ page.load.fn = "getOrders"
    /\ \E list \in OrderLists :
         /\ storage' = StoreLatest(storage, list)
         /\ page' = [TakeLatest(page, list) EXCEPT
                       !.loading = IF page.load.then = "mount" THEN FALSE ELSE @,
                       !.load = NoCall, !.event = Event("getOrders resolved")]
    /\ UNCHANGED <<serverVars, authCtx, route>>

\* l.115-118 and l.141-144: getOrders rejects
GetOrdersRejects ==
    /\ page.load.fn = "getOrders"
    /\ page' = IF page.load.then = "mount"
               THEN [page EXCEPT !.order = NoOrder, !.loading = FALSE, !.load = NoCall,
                                 !.event = Event("getOrders rejected")]
               ELSE [page EXCEPT !.submitError = "Failed to load order",
                                 !.orderError = "Failed to load order", !.load = NoCall,
                                 !.event = Event("getOrders rejected")]
    /\ UNCHANGED <<serverVars, storage, authCtx, route>>

\* onSubmit, l.147-172, up to its first await
onSubmit_AlwaysCreates(p, data) ==
    [p EXCEPT !.submitError = "", !.orderError = "", !.errors = {},
              !.submit = Call("createOrder", 0, data.preference, "create"),
              !.event = [Event("submit") EXCEPT !.form = data]]
onSubmit(p, data) ==
    [p EXCEPT !.submitError = "", !.orderError = "", !.errors = {},
              !.submit = IF ~p.order.nil /\ p.order.id # 0
                         THEN Call("updateOrder", p.order.id, data.preference, "update")
                         ELSE Call("createOrder", 0, data.preference, "create"),
              !.event = [Event("submit") EXCEPT !.form = data]]

\* handleSubmit(onSubmit): the resolver first; onSubmit only for valid data
Submit ==
    /\ ~page.loading /\ page.step = STEP_PREFERENCE /\ ~isSubmitting(page)
    /\ \E data \in FormInputs :
         page' = IF schema(data, now) # {}
                 THEN [page EXCEPT !.errors = schema(data, now),
                                   !.event = [Event("invalid") EXCEPT !.form = data]]
                 ELSE onSubmit(page, data)
    /\ UNCHANGED <<serverVars, storage, authCtx, route>>

\* l.165-166: updateOrder resolved, getOrder(order.id) leaves
UpdateResolves ==
    /\ page.submit.fn = "updateOrder"
    /\ page' = [page EXCEPT !.submit = Call("getOrder", page.submit.id,
                                            page.submit.preference, "refetch"),
                            !.event = Event("updateOrder resolved")]
    /\ UNCHANGED <<serverVars, storage, authCtx, route>>

\* l.166-167 and l.173: the order read back, the page moves to step 2
RefetchResolves ==
    /\ page.submit.fn = "getOrder"
    /\ page' = [page EXCEPT !.order = Order(page.submit.id, page.submit.preference),
                            !.step = STEP_DETAILS, !.submit = NoCall,
                            !.event = Event("getOrder resolved")]
    /\ UNCHANGED <<serverVars, storage, authCtx, route>>

\* l.169-173: createOrder resolved
CreateResolves ==
    /\ page.submit.fn = "createOrder"
    /\ \E id \in OrderIds :
         /\ storage' = [storage EXCEPT !.orderId = String(id)]
         /\ page' = [page EXCEPT !.order = Order(id, page.submit.preference),
                                 !.step = STEP_DETAILS, !.submit = NoCall,
                                 !.event = Event("createOrder resolved")]
    /\ UNCHANGED <<serverVars, authCtx, route>>

\* the message api/client.ts throws for a failed call
FailureMessage(fn) ==
    CASE fn = "createOrder" -> "Create failed"
      [] fn = "updateOrder" -> "Update failed"
      [] OTHER -> "Not found"

\* l.174-176: any of the awaited calls of onSubmit rejects
SubmitRejects ==
    /\ isSubmitting(page)
    /\ page' = [page EXCEPT !.submitError = FailureMessage(page.submit.fn),
                            !.submit = NoCall,
                            !.event = Event(page.submit.fn \o " rejected")]
    /\ UNCHANGED <<serverVars, storage, authCtx, route>>

\* the Next button of step 1, shown with an order
NextClicked ==
    /\ ~page.loading /\ page.step = STEP_PREFERENCE /\ ~page.order.nil
    /\ page' = [page EXCEPT !.step = STEP_DETAILS, !.event = Event("next")]
    /\ UNCHANGED <<serverVars, storage, authCtx, route>>

\* the Back button of step 2
BackClicked ==
    /\ ~page.loading /\ page.step = STEP_DETAILS
    /\ page' = [page EXCEPT !.step = STEP_PREFERENCE, !.event = Event("back")]
    /\ UNCHANGED <<serverVars, storage, authCtx, route>>

\* onGenerateSummary, l.179-184, up to its await
onGenerateSummary(p) ==
    IF p.order.nil \/ p.order.id = 0 THEN p
    ELSE [p EXCEPT !.summaryLoading = TRUE, !.aiSummary = NoSummary,
                   !.summary = Call("getOrderSummary", p.order.id, "", "summary"),
                   !.event = Event("generate")]

\* the button of the summary card: shown with an order, disabled while loading
GenerateClicked ==
    /\ ~page.loading /\ page.step = STEP_DETAILS
    /\ ~page.order.nil /\ ~page.summaryLoading
    /\ page' = onGenerateSummary(page)
    /\ UNCHANGED <<serverVars, storage, authCtx, route>>

\* l.184-185 and l.188-190: getOrderSummary resolves
SummaryResolves ==
    /\ page.summary.fn = "getOrderSummary"
    /\ \E data \in SummaryAnswers :
         page' = [page EXCEPT !.aiSummary = data, !.summaryLoading = FALSE,
                              !.summary = NoCall,
                              !.event = [Event("getOrderSummary resolved") EXCEPT
                                           !.data = data]]
    /\ UNCHANGED <<serverVars, storage, authCtx, route>>

\* l.186-190: getOrderSummary rejects
SummaryRejects ==
    /\ page.summary.fn = "getOrderSummary"
    /\ page' = [page EXCEPT !.summaryLoading = FALSE, !.summary = NoCall,
                            !.event = Event("getOrderSummary rejected")]
    /\ UNCHANGED <<serverVars, storage, authCtx, route>>

NextPage ==
    \/ MountGetOrderResolves
    \/ MountGetOrderRejects
    \/ GetOrdersResolves
    \/ GetOrdersRejects
    \/ Submit
    \/ UpdateResolves
    \/ RefetchResolves
    \/ CreateResolves
    \/ SubmitRejects
    \/ NextClicked
    \/ BackClicked
    \/ GenerateClicked
    \/ SummaryResolves
    \/ SummaryRejects

SpecPage == InitPage /\ [][NextPage]_vars

\* a submit the form's schema must refuse
RefusedData(data) ==
    /\ data.preference \in {"DELIVERY", "CURBSIDE"}
    /\ \/ data.address.nil \/ Blank(data.address.val)
       \/ data.pickup_time.nil \/ Blank(data.pickup_time.val)
       \/ ~DateOf(data.pickup_time.val).valid
       \/ DateOf(data.pickup_time.val).ms <= now

\* C24: a submit of DELIVERY or CURBSIDE with a blank address, no pickup
\* time or a pickup time not in the future sends nothing, keeps the page on
\* its step and shows a validation error.
C24_InvalidSubmitStopsAtForm ==
    [][(/\ page'.event.name \in {"invalid", "submit"}
        /\ RefusedData(page'.event.form))
       => /\ page'.submit = NoCall /\ page.submit = NoCall
          /\ page.step = STEP_PREFERENCE /\ page'.step = STEP_PREFERENCE
          /\ page'.errors # {}
          /\ page'.order = page.order
          /\ storage' = storage]_vars

C24_Witness ==
    /\ page.event.name = "invalid"
    /\ \E e \in page.errors : e[2] = "Pickup time must be in the future"
    /\ ~page.order.nil
    /\ page.step = STEP_PREFERENCE

\* C25: Generate AI summary with an order loaded calls getOrderSummary with
\* the order's id; when the call resolves the summary card shows the text
\* returned, with the badge exactly for source "ai"; when it fails the card
\* shows no summary and no badge; either way summaryLoading is false again.
C25_SummaryShown ==
    [][/\ page'.event.name = "generate"
            => /\ ~page.order.nil
               /\ page'.summary = Call("getOrderSummary", page.order.id, "", "summary")
       /\ page'.event.name = "getOrderSummary resolved"
            => /\ SummaryCard(page').shows = "summary"
               /\ SummaryCard(page').text = page'.event.data.summary
               /\ SummaryCard(page').badge <=> (page'.event.data.source = "ai")
               /\ ~page'.summaryLoading
       /\ page'.event.name = "getOrderSummary rejected"
            => /\ SummaryCard(page').shows # "summary"
               /\ ~SummaryCard(page').badge
               /\ ~page'.summaryLoading]_vars

\* the summary card follows the answer whenever the page still holds an order
SummaryShownWhileOrderStays ==
    [][(page'.event.name = "getOrderSummary resolved" /\ ~page'.order.nil)
          => /\ SummaryCard(page').shows = "summary"
             /\ SummaryCard(page').text = page'.event.data.summary
             /\ SummaryCard(page').badge <=> (page'.event.data.source = "ai")]_vars

SubmitFailed(name) ==
    name \in {"createOrder rejected", "updateOrder rejected", "getOrder rejected"}

MessageToCarry(net) ==
    IF net.json /\ net.errPresent /\ net.errMessage # ""
    THEN net.errMessage
    ELSE StatusLine(net.StatusCode)

Carries(err, msg) == ~err.nil /\ \E i \in 1..Len(err.text) : err.text[i] = msg

\* C27: for a non-success HTTP response either adapter's error carries the
\* envelope's message when the body has one that is not empty, and the HTTP
\* status line otherwise, an empty or non-JSON body included.
C27_ErrorCarriesMessage ==
    (aout.fn # "" /\ aout.sent # <<>> /\ NonSuccess(netIn))
        => Carries(aout.err, MessageToCarry(netIn))

\* callOpenAI alone does so
OpenAIErrorCarriesMessage ==
    (aout.fn = "callOpenAI" /\ aout.sent # <<>> /\ NonSuccess(netIn))
        => Carries(aout.err, MessageToCarry(netIn))

\* and callGemini for every body that is JSON
GeminiErrorCarriesMessage ==
    (aout.fn = "callGemini" /\ aout.sent # <<>> /\ NonSuccess(netIn) /\ netIn.json)
        => Carries(aout.err, MessageToCarry(netIn))

(***************************************************************************)
(* The log lines of generateOrderSummary.                                  *)
(***************************************************************************)
IsPromptLine(line) == line # <<>> /\ line[1] = "order summary: input prompt: "
PromptLogged(trace) == \E i \in 1..Len(trace.log) : IsPromptLine(trace.log[i])

\* the result read off the credentials and the adapter's outcome, no log line
\* taking part
ResultFromOutcome(trace) ==
    IF trace.invoked # <<>> /\ trace.adapter.err.nil /\ trace.adapter.s # <<>>
    THEN trace.summary = trace.adapter.s /\ trace.source = <<"ai">>
    ELSE trace.summary = fallbackSummaryText /\ trace.source = <<"fallback">>

\* C26: the result of generateOrderSummary is a function of the credentials
\* and the provider's outcome alone, whatever is logged, and the prompt is
\* logged only when a call to a provider is attempted, that is, when a
\* request is sent.
C26_LoggingIsSideEffect ==
    gout.done =>
        /\ ResultFromOutcome(gout)
        /\ PromptLogged(gout) => gout.sent # <<>>

\* the result does follow from the outcome alone
ResultIgnoresLog == gout.done => ResultFromOutcome(gout)

\* and the prompt is logged exactly when an adapter is entered
PromptLoggedWhenAdapterEntered == gout.done => (PromptLogged(gout) <=> gout.invoked # <<>>)

(***************************************************************************)
(* What UpdateOrder leaves alone.                                          *)
(***************************************************************************)
Named(row, idStr) == Atoi(idStr).ok /\ row.id = Atoi(idStr).n

\* C28: an UpdateOrder answered 200 changes the preference, address and
\* pickup_time of the order named and nothing else: its id, owner and
\* created_at stay, every other order stays, and so does the number of
\* orders; an UpdateOrder answered 400 or 404 changes nothing.
C28_UpdateFrame ==
    [][last'.handler = "UpdateOrder" =>
         /\ last'.status = 200 =>
              /\ Len(orders') = Len(orders)
              /\ \A i \in 1..Len(orders) :
                    IF Named(orders[i], last'.idStr)
                    THEN /\ orders'[i].id = orders[i].id
                         /\ orders'[i].user_id = orders[i].user_id
                         /\ orders'[i].created_at = orders[i].created_at
                         /\ orders[i].user_id = last'.auth.user_id
                    ELSE orders'[i] = orders[i]
         /\ last'.status \in {400, 404} => orders' = orders]_vars

C28_Witness ==
    /\ last.handler = "UpdateOrder" /\ last.status = 200
    /\ Len(orders) = MaxOrders + 1
    /\ \E i, j \in 1..Len(orders) :
          /\ Named(orders[i], last.idStr)
          /\ orders[i].preference = body.Preference
          /\ orders[i].address.Valid /\ orders[i].pickup_time.Valid
          /\ ~Named(orders[j], last.idStr)
          /\ orders[j].preference # body.Preference
====
